---- MODULE Spec2Model ----
(***************************************************************************)
(* The event-management store of src/test.cpp (class System and the entity *)
(* classes User, Attendee, InventoryItem, Event) as a state machine.       *)
(*                                                                         *)
(* One action per menu operation of System; each action is the whole       *)
(* handler: lookups, guards, early returns and the mutation.  What the     *)
(* operator types is an input drawn with \E from a small set.  The fields  *)
(* date, time, location, description and category of an Event and the      *)
(* description of an InventoryItem are free text that no guard reads; they *)
(* are left out of the records.                                            *)
(***************************************************************************)
EXTENDS Integers, Sequences, FiniteSets, TLC

(***************************************************************************)
(* Bounds of the model (not program constants).                            *)
(***************************************************************************)
\* quantities typed at the allocate / deallocate / add-item prompts: 1..MaxQty
MaxQty == 2
\* new totals typed at the update-item prompt: -1..MaxTotal
MaxTotal == 1
\* successful allocations stop once an item's allocatedQuantity would pass this
MaxAlloc == 2
\* event ids typed at a prompt: 1..MaxEventPick (1 is the id of no seeded event)
MaxEventPick == 3
\* item ids typed at a prompt: 1..MaxItemPick (1 is the id of no seeded item)
MaxItemPick == 3
\* events created by createEvent in one run
MaxNewEvents == 1
\* items created by addInventoryItem in one run
MaxNewItems == 1
\* an admin registers a guest only while allAttendees holds fewer records than this
MaxAttendees == 4
\* event ids an admin types when registering a guest: 1..MaxGuestEventPick
MaxGuestEventPick == 2
\* user accounts created in one run
MaxNewUsers == 2
\* attendee ids typed at the check-in prompt: the MaxAttendeePick ids from the
\* seeded regular user's id on
MaxAttendeePick == 2
\* the program is left and started again only while no collection holds more
\* records than this
MaxLines == 5
\* and only while no kind has had more ids handed out than this
MaxHandedOut == 5

(***************************************************************************)
(* Program constants.                                                      *)
(***************************************************************************)
\* static int nextUserId / nextAttendeeId / nextItemId / nextEventId = 1
FirstId == 1
\* if (pwd.length() < 6): the shortest password an account is created with
MinPasswordLength == 6
NoUser == 0          \* currentUser == nullptr
NotFound == 0        \* a find... that returns nullptr
Dangling == -1       \* currentUser points at a User that was deleted

VARIABLES
    users,           \* std::vector<User*> users
    events,          \* std::vector<Event> events
    inventory,       \* std::vector<InventoryItem> inventory
    allAttendees,    \* std::vector<Attendee> allAttendees
    currentUser,     \* User* currentUser: a position in users, NoUser for nullptr
    nextUserId,      \* User::nextUserId
    nextEventId,     \* Event::nextEventId
    nextItemId,      \* InventoryItem::nextItemId
    nextAttendeeId,  \* Attendee::nextAttendeeId
    files,           \* the lines of users.txt, events.txt, inventory.txt, attendees.txt
    database,        \* final_project.cpp: the events and the users of Database
    returned,        \* final_project.cpp: the handler run last and what registerUser returned
    accepted,        \* final_project.cpp: the <<event, userId>> registerUser returned true for
    last,            \* the operation performed last, what was typed and how it ended
    assigned,        \* history: per kind, the ids the constructors of new entities
                     \* (userId = nextUserId++ and alike) have handed out, in order
    checkedInFor     \* history: the <<eventId, attendeeId>> for which
                     \* checkInAttendeeForEvent went through since the attendee
                     \* was registered for the event

vars == <<users, events, inventory, allAttendees, currentUser,
          nextUserId, nextEventId, nextItemId, nextAttendeeId, files, last, assigned,
          database, returned, accepted, checkedInFor>>

store == <<users, events, inventory, allAttendees, currentUser,
           nextUserId, nextEventId, nextItemId, nextAttendeeId>>

(***************************************************************************)
(* Strings.  toLower maps each character through std::tolower; the names   *)
(* used here differ from their lower-case form in the first letter only.   *)
(***************************************************************************)
toLower(s) ==
    CASE s = "Projector"  -> "projector"
      [] s = "Microphone" -> "microphone"
      [] s = "Chairs"     -> "chairs"
      [] s = "Lamp"       -> "lamp"
      [] s = "MICROPHONE" -> "microphone"
      [] OTHER            -> s

\* std::string::length of the passwords used here
Length(s) ==
    CASE s = "password" -> 8
      [] s = "pass123"  -> 7
      [] s = "secret1"  -> 7
      [] s = "short"    -> 5
      [] s = "secret,1" -> 8
      [] OTHER          -> 0

(***************************************************************************)
(* std::map<int,int>: a function whose domain is the set of keys.          *)
(***************************************************************************)
EmptyMap == <<>>
MapGet(m, k) == IF k \in DOMAIN m THEN m[k] ELSE 0
MapPut(m, k, v) == [x \in (DOMAIN m) \cup {k} |-> IF x = k THEN v ELSE m[x]]
MapErase(m, k) == [x \in (DOMAIN m) \ {k} |-> m[x]]

RemoveAt(s, i) == [j \in 1..(Len(s) - 1) |-> IF j < i THEN s[j] ELSE s[j + 1]]

Range(s) == { s[j] : j \in 1..Len(s) }

SeqContains(s, x) == \E j \in 1..Len(s) : s[j] = x

\* position of the first element of s equal to x (std::find), 0 for end()
FirstIndex(s, x) ==
    IF SeqContains(s, x)
    THEN CHOOSE j \in 1..Len(s) : s[j] = x /\ \A k \in 1..(j - 1) : s[k] # x
    ELSE 0

(***************************************************************************)
(* Id counters.                                                            *)
(***************************************************************************)
\* static void initNextId(int id) { if (id >= nextId) nextId = id + 1; }
initNextId(next, id) == IF id >= next THEN id + 1 ELSE next

(***************************************************************************)
(* Attendee                                                                *)
(***************************************************************************)
\* an Attendee that gets another id than the one it was constructed with
NewAttendeeOtherId(id, n, contact, eventId, checkedInStatus) ==
    [attendeeId |-> id + 1, name |-> n, contactInfo |-> contact,
     eventIdRegisteredFor |-> eventId, isCheckedIn |-> checkedInStatus]

\* Attendee(int id, std::string n, std::string contact, int eventId, bool checkedInStatus)
NewAttendee(id, n, contact, eventId, checkedInStatus) ==
    [attendeeId |-> id, name |-> n, contactInfo |-> contact,
     eventIdRegisteredFor |-> eventId, isCheckedIn |-> checkedInStatus]

\* the constructor that is given the id, leaving the counter alone
nextAttendeeIdKept(next, id) == next

\* Attendee::nextAttendeeId after the constructor that is given the id
nextAttendeeIdAfter(next, id) == IF id >= next THEN id + 1 ELSE next

\* checkIn that flips the flag
checkInToggling(attendee) == [attendee EXCEPT !.isCheckedIn = ~@]

\* void Attendee::checkIn()
checkIn(attendee) ==
    IF ~attendee.isCheckedIn THEN [attendee EXCEPT !.isCheckedIn = TRUE] ELSE attendee

(***************************************************************************)
(* InventoryItem                                                           *)
(***************************************************************************)
\* InventoryItem(std::string n, int qty, std::string desc)
NewInventoryItem(id, n, qty) ==
    [itemId |-> id, name |-> n, totalQuantity |-> qty, allocatedQuantity |-> 0]

getAvailableQuantity(item) == item.totalQuantity - item.allocatedQuantity

\* allocate with the availability test replaced by a test against the total
allocateAgainstTotal(item, quantityToAllocate) ==
    IF quantityToAllocate <= 0
    THEN [ok |-> FALSE, item |-> item]
    ELSE IF quantityToAllocate <= item.totalQuantity
         THEN [ok |-> TRUE,
               item |-> [item EXCEPT !.allocatedQuantity = @ + quantityToAllocate]]
         ELSE [ok |-> FALSE, item |-> item]

\* bool InventoryItem::allocate(int): the result and the item afterwards
allocate(item, quantityToAllocate) ==
    IF quantityToAllocate <= 0
    THEN [ok |-> FALSE, item |-> item]
    ELSE IF quantityToAllocate <= getAvailableQuantity(item)
         THEN [ok |-> TRUE,
               item |-> [item EXCEPT !.allocatedQuantity = @ + quantityToAllocate]]
         ELSE [ok |-> FALSE, item |-> item]

\* bool InventoryItem::deallocate(int): the result and the item afterwards
deallocate(item, quantityToDeallocate) ==
    IF quantityToDeallocate <= 0
    THEN [ok |-> FALSE, item |-> item]
    ELSE IF quantityToDeallocate <= item.allocatedQuantity
         THEN [ok |-> TRUE,
               item |-> [item EXCEPT !.allocatedQuantity = @ - quantityToDeallocate]]
         ELSE [ok |-> FALSE, item |-> item]

\* setTotalQuantity that also refuses a total equal to allocatedQuantity
setTotalQuantityStrict(item, newTotalQuantity) ==
    IF newTotalQuantity < 0 THEN item
    ELSE IF newTotalQuantity <= item.allocatedQuantity THEN item
    ELSE [item EXCEPT !.totalQuantity = newTotalQuantity]

\* setTotalQuantity without the test against allocatedQuantity
setTotalQuantityUnchecked(item, newTotalQuantity) ==
    IF newTotalQuantity < 0 THEN item
    ELSE [item EXCEPT !.totalQuantity = newTotalQuantity]

\* void InventoryItem::setTotalQuantity(int)
setTotalQuantity(item, newTotalQuantity) ==
    IF newTotalQuantity < 0 THEN item
    ELSE IF newTotalQuantity < item.allocatedQuantity THEN item
    ELSE [item EXCEPT !.totalQuantity = newTotalQuantity]

(***************************************************************************)
(* Event                                                                   *)
(***************************************************************************)
\* Event(name, date, time, loc, desc, cat): status UPCOMING, no attendees, no items
NewEvent(id, n) ==
    [eventId |-> id, name |-> n, status |-> "UPCOMING",
     attendeeIds |-> <<>>, allocatedInventory |-> EmptyMap]

\* addAttendee without the membership test
addAttendeeAlways(event, attendeeId) ==
    [event EXCEPT !.attendeeIds = Append(@, attendeeId)]

\* void Event::addAttendee(int)
addAttendee(event, attendeeId) ==
    IF ~SeqContains(event.attendeeIds, attendeeId)
    THEN [event EXCEPT !.attendeeIds = Append(@, attendeeId)]
    ELSE event

\* removeAttendee that removes nothing
removeAttendeeNever(event, attendeeId) == event

\* void Event::removeAttendee(int)
removeAttendee(event, attendeeId) ==
    LET it == FirstIndex(event.attendeeIds, attendeeId) IN
    IF it # 0
    THEN [event EXCEPT !.attendeeIds = RemoveAt(@, it)]
    ELSE event

\* allocateInventoryItem that overwrites the entry instead of adding to it
allocateInventoryItemOverwriting(event, itemId, quantity) ==
    IF quantity <= 0 THEN event
    ELSE [event EXCEPT !.allocatedInventory = MapPut(@, itemId, quantity)]

\* void Event::allocateInventoryItem(int itemId, int quantity)
allocateInventoryItem(event, itemId, quantity) ==
    IF quantity <= 0 THEN event
    ELSE [event EXCEPT !.allocatedInventory =
              MapPut(@, itemId, MapGet(@, itemId) + quantity)]

\* deallocateInventoryItem without the cap at the entry's current quantity
deallocateInventoryItemUncapped(event, itemId, quantityToDeallocate) ==
    IF quantityToDeallocate <= 0
    THEN [actual |-> 0, event |-> event]
    ELSE IF itemId \in DOMAIN event.allocatedInventory
         THEN LET left == event.allocatedInventory[itemId] - quantityToDeallocate
              IN [actual |-> quantityToDeallocate,
                  event |-> [event EXCEPT !.allocatedInventory =
                                IF left <= 0 THEN MapErase(@, itemId)
                                ELSE MapPut(@, itemId, left)]]
         ELSE [actual |-> 0, event |-> event]

\* deallocateInventoryItem that keeps an entry whose quantity has come down to 0
deallocateInventoryItemKeepingEntry(event, itemId, quantityToDeallocate) ==
    IF quantityToDeallocate <= 0
    THEN [actual |-> 0, event |-> event]
    ELSE IF itemId \in DOMAIN event.allocatedInventory
         THEN LET currentQty == event.allocatedInventory[itemId]
                  actualDeallocated == IF currentQty < quantityToDeallocate
                                       THEN currentQty ELSE quantityToDeallocate
              IN [actual |-> actualDeallocated,
                  event |-> [event EXCEPT !.allocatedInventory =
                                MapPut(@, itemId, currentQty - actualDeallocated)]]
         ELSE [actual |-> 0, event |-> event]

\* int Event::deallocateInventoryItem(int, int): the amount removed and the event afterwards
deallocateInventoryItem(event, itemId, quantityToDeallocate) ==
    IF quantityToDeallocate <= 0
    THEN [actual |-> 0, event |-> event]
    ELSE IF itemId \in DOMAIN event.allocatedInventory
         THEN LET currentQty == event.allocatedInventory[itemId]
                  actualDeallocated == IF currentQty < quantityToDeallocate
                                       THEN currentQty ELSE quantityToDeallocate
                  left == currentQty - actualDeallocated
              IN [actual |-> actualDeallocated,
                  event |-> [event EXCEPT !.allocatedInventory =
                                IF left <= 0 THEN MapErase(@, itemId)
                                ELSE MapPut(@, itemId, left)]]
         ELSE [actual |-> 0, event |-> event]

(***************************************************************************)
(* System: lookups.  Each returns the position of the first match in the   *)
(* vector, NotFound where the code returns nullptr.                        *)
(***************************************************************************)
findEventById(evs, eventId) ==
    IF \E j \in 1..Len(evs) : evs[j].eventId = eventId
    THEN CHOOSE j \in 1..Len(evs) :
             evs[j].eventId = eventId /\ \A k \in 1..(j - 1) : evs[k].eventId # eventId
    ELSE NotFound

findInventoryItemById(inv, itemId) ==
    IF \E j \in 1..Len(inv) : inv[j].itemId = itemId
    THEN CHOOSE j \in 1..Len(inv) :
             inv[j].itemId = itemId /\ \A k \in 1..(j - 1) : inv[k].itemId # itemId
    ELSE NotFound

\* a lookup by name that compares the names as they are
findInventoryItemByNameExact(inv, name) ==
    IF \E j \in 1..Len(inv) : inv[j].name = name
    THEN CHOOSE j \in 1..Len(inv) :
             inv[j].name = name /\ \A k \in 1..(j - 1) : inv[k].name # name
    ELSE NotFound

findInventoryItemByName(inv, name) ==
    IF \E j \in 1..Len(inv) : toLower(inv[j].name) = toLower(name)
    THEN CHOOSE j \in 1..Len(inv) :
             /\ toLower(inv[j].name) = toLower(name)
             /\ \A k \in 1..(j - 1) : toLower(inv[k].name) # toLower(name)
    ELSE NotFound

\* a master-list lookup that finds nobody
findAttendeeNowhere(atts, attendeeId) == NotFound

findAttendeeInMasterList(atts, attendeeId) ==
    IF \E j \in 1..Len(atts) : atts[j].attendeeId = attendeeId
    THEN CHOOSE j \in 1..Len(atts) :
             atts[j].attendeeId = attendeeId /\ \A k \in 1..(j - 1) : atts[k].attendeeId # attendeeId
    ELSE NotFound

\* a username test that finds nobody
usernameExistsNever(us, username) == FALSE

usernameExists(us, username) == \E j \in 1..Len(us) : us[j].username = username

(***************************************************************************)
(* Start of the program: System::System() runs loadData(), System::run()   *)
(* runs loadData() again and then seedInitialData().  On a first run no    *)
(* data file exists, the four collections load empty, and loadData() calls *)
(* initNextId(maxId + 1) with maxId = 0 for every kind.                    *)
(***************************************************************************)
\* the counter of one kind after loadData() over ids (ids: the set of loaded ids)
MaxId(ids) == IF ids = {} THEN 0 ELSE CHOOSE m \in ids : \A x \in ids : x <= m
loadDataNextId(next, ids) == initNextId(next, MaxId(ids) + 1)

\* a counter after System::System() and the loadData() of run(), nothing loaded
FirstRunNextId == loadDataNextId(loadDataNextId(FirstId, {}), {})

NewUser(id, uname, pwd, r) ==
    [userId |-> id, username |-> uname, password |-> pwd, role |-> r]

\* seedInitialData(): the users pushed when users is empty
seedUsers(next) ==
    << NewUser(next, "admin", "password", "ADMIN"),
       NewUser(next + 1, "admin2", "pass123", "ADMIN"),
       NewUser(next + 2, "user1", "pass123", "REGULAR_USER") >>

\* seedInitialData(): the events pushed when events is empty
seedEvents(next) ==
    << NewEvent(next, "Tech Conference 2025"),
       NewEvent(next + 1, "Summer Music Festival"),
       NewEvent(next + 2, "Art Workshop") >>

\* seedInitialData(): the items pushed when inventory is empty
seedInventory(next) ==
    << NewInventoryItem(next, "Projector", 5),
       NewInventoryItem(next + 1, "Microphone", 10),
       NewInventoryItem(next + 2, "Chairs", 100) >>

(***************************************************************************)
(* The data files.  A line is the sequence of its comma-separated fields,  *)
(* every field a string; the attendee list of an event line is the         *)
(* sequence of its ';'-separated entries and the inventory list the        *)
(* sequence of its itemId:quantity pairs.  Of an event and an item the     *)
(* fields kept here are the ones of NewEvent and NewInventoryItem.         *)
(***************************************************************************)
\* what std::getline(ss, segment, ',') cuts a text into when the text is written
\* into a line: one field for a text without a comma, two for the texts with
\* one comma that are typed here
Segments(text) ==
    CASE text = "secret,1"      -> << "secret", "1" >>
      [] text = "gala, opening" -> << "gala", " opening" >>
      [] text = "lamp, red"     -> << "lamp", " red" >>
      [] text = "c2, home"      -> << "c2", " home" >>
      [] OTHER                  -> << text >>

\* operator<<(int): the decimal text of the numbers written here
DecimalText ==
    << "0", "1", "2", "3", "4", "5", "6", "7", "8", "9", "10", "11", "12" >>
Numbers == { n - 1 : n \in 1..Len(DecimalText) } \cup { 100 }
itoa(n) == IF n = 100 THEN "100" ELSE DecimalText[n + 1]

\* texts std::stoi reads a number from although operator<< writes none of them:
\* leading zeros, leading white space, characters after the digits
LenientText == { "07", " 7", "2x" }
LenientValue(segment) == IF segment = "2x" THEN 2 ELSE 7

\* std::stoi(segment) returns a number when the text starts with one, and
\* throws std::invalid_argument otherwise
IsNumber(segment) == segment \in LenientText \/ \E n \in Numbers : itoa(n) = segment
stoi(segment) ==
    IF segment \in LenientText THEN LenientValue(segment)
    ELSE CHOOSE n \in Numbers : itoa(n) = segment

\* static_cast<int>(role), enum class Role { ADMIN, REGULAR_USER, NONE }
RoleInt(r) == CASE r = "ADMIN" -> 0 [] r = "REGULAR_USER" -> 1 [] OTHER -> 2

\* static_cast<int>(status); a status that is none of the enumerators is held
\* as the text of its integer
StatusInt(s) ==
    CASE s = "UPCOMING" -> 0 [] s = "ONGOING" -> 1
      [] s = "COMPLETED" -> 2 [] s = "CANCELED" -> 3 [] OTHER -> stoi(s)

\* static_cast<EventStatus>(n), enum class EventStatus { UPCOMING, ONGOING, COMPLETED, CANCELED }
StatusOfInt(n) ==
    CASE n = 0 -> "UPCOMING" [] n = 1 -> "ONGOING"
      [] n = 2 -> "COMPLETED" [] n = 3 -> "CANCELED" [] OTHER -> itoa(n)

\* the outcome of decoding one line: an entity, nothing (the line is skipped
\* with a warning), or an exception that leaves fromString
Decoded(e) == [kind |-> "entity", entity |-> e]
Skipped == [kind |-> "skip"]
Thrown == [kind |-> "throw"]

\* std::string User::toString()
UserToString(u) ==
    << itoa(u.userId) >> \o Segments(u.username) \o Segments(u.password)
        \o << itoa(RoleInt(u.role)) >>

\* User* User::fromString(str): nullptr for a line with fewer than three commas,
\* for a stoi that throws and for a role that is neither ADMIN nor REGULAR_USER
UserFromString(str) ==
    IF Len(str) < 4 THEN Skipped
    ELSE IF ~IsNumber(str[1]) \/ ~IsNumber(str[4]) THEN Skipped
    ELSE IF stoi(str[4]) = RoleInt("ADMIN")
    THEN Decoded(NewUser(stoi(str[1]), str[2], str[3], "ADMIN"))
    ELSE IF stoi(str[4]) = RoleInt("REGULAR_USER")
    THEN Decoded(NewUser(stoi(str[1]), str[2], str[3], "REGULAR_USER"))
    ELSE Skipped

\* std::string Attendee::toString()
AttendeeToString(a) ==
    << itoa(a.attendeeId) >> \o Segments(a.name) \o Segments(a.contactInfo)
        \o << itoa(a.eventIdRegisteredFor), IF a.isCheckedIn THEN "1" ELSE "0" >>

\* Attendee Attendee::fromString(str): both std::stoi calls are unguarded
AttendeeFromString(str) ==
    IF ~IsNumber(str[1]) \/ ~IsNumber(str[4]) THEN Thrown
    ELSE Decoded(NewAttendee(stoi(str[1]), str[2], str[3], stoi(str[4]), str[5] = "1"))

\* std::string InventoryItem::toString()
InventoryItemToString(i) ==
    << itoa(i.itemId) >> \o Segments(i.name)
        \o << itoa(i.totalQuantity), itoa(i.allocatedQuantity) >>

\* InventoryItem InventoryItem::fromString(str): the std::stoi calls are unguarded
InventoryItemFromString(str) ==
    IF ~IsNumber(str[1]) \/ ~IsNumber(str[3]) \/ ~IsNumber(str[4]) THEN Thrown
    ELSE Decoded([itemId |-> stoi(str[1]), name |-> str[2],
                  totalQuantity |-> stoi(str[3]),
                  allocatedQuantity |-> stoi(str[4])])

\* the keys of a std::map<int,int> in iteration order
RECURSIVE KeysInOrder(_)
KeysInOrder(keys) ==
    IF keys = {} THEN <<>>
    ELSE LET k == CHOOSE x \in keys : \A y \in keys : x <= y
         IN <<k>> \o KeysInOrder(keys \ {k})

\* std::string Event::attendeesToString()
attendeesToString(event) ==
    [j \in 1..Len(event.attendeeIds) |-> itoa(event.attendeeIds[j])]

\* std::string Event::inventoryToString()
inventoryToString(event) ==
    LET keys == KeysInOrder(DOMAIN event.allocatedInventory)
    IN [j \in 1..Len(keys) |-> << itoa(keys[j]), itoa(event.allocatedInventory[keys[j]]) >>]

\* std::string Event::toString()
EventToString(event) ==
    << itoa(event.eventId) >> \o Segments(event.name)
        \o << itoa(StatusInt(event.status)),
              attendeesToString(event), inventoryToString(event) >>

\* the loop of Event::fromString over the inventory string: a pair whose texts
\* are not numbers is skipped with a warning, a later pair of one item wins
RECURSIVE inventoryFromString(_, _)
inventoryFromString(map, pairs) ==
    IF pairs = <<>> THEN map
    ELSE LET p == Head(pairs)
         IN inventoryFromString(
                IF IsNumber(p[1]) /\ IsNumber(p[2])
                THEN MapPut(map, stoi(p[1]), stoi(p[2])) ELSE map,
                Tail(pairs))

\* Event Event::fromString(str): the std::stoi of the id, of the status and of
\* every attendee id are unguarded, and the status integer is cast unchecked
EventFromString(str) ==
    IF ~IsNumber(str[1]) \/ ~IsNumber(str[3]) THEN Thrown
    ELSE IF \E j \in 1..Len(str[4]) : ~IsNumber(str[4][j]) THEN Thrown
    ELSE Decoded([eventId |-> stoi(str[1]), name |-> str[2],
                  status |-> StatusOfInt(stoi(str[3])),
                  attendeeIds |-> [j \in 1..Len(str[4]) |-> stoi(str[4][j])],
                  allocatedInventory |-> inventoryFromString(EmptyMap, str[5])])

(***************************************************************************)
(* Saving.  A store is the four collections with the four counters; the    *)
(* files are the lines of users.txt, events.txt, inventory.txt and         *)
(* attendees.txt.                                                          *)
(***************************************************************************)
Store(us, evs, inv, atts, nU, nE, nI, nA) ==
    [users |-> us, events |-> evs, inventory |-> inv, allAttendees |-> atts,
     nextUserId |-> nU, nextEventId |-> nE, nextItemId |-> nI, nextAttendeeId |-> nA]

\* void System::saveUsers() and alike: the file is rewritten from the collection
saveUsers(us) == [j \in 1..Len(us) |-> UserToString(us[j])]
saveEvents(evs) == [j \in 1..Len(evs) |-> EventToString(evs[j])]
saveInventory(inv) == [j \in 1..Len(inv) |-> InventoryItemToString(inv[j])]
saveAttendees(atts) == [j \in 1..Len(atts) |-> AttendeeToString(atts[j])]

\* void System::saveData(): every file is rewritten from its collection
saveData(s) ==
    [users |-> saveUsers(s.users),
     events |-> saveEvents(s.events),
     inventory |-> saveInventory(s.inventory),
     attendees |-> saveAttendees(s.allAttendees)]

(***************************************************************************)
(* src/final_project.cpp is a program of its own.  Its Database starts     *)
(* with two events of capacity 100 and 500, the administrator admin and    *)
(* the regular users user1 and user2; the ids come from rand() and are     *)
(* drawn when the program starts.                                          *)
(***************************************************************************)
\* the ids rand() % 9000 + 1000 gives here
EventIdDraws == { 1001, 1002 }
UserIdDraws == { 2001, 2002 }

\* Event::Event(evtName, desc, evtDate, evtTime, cap): nobody registered
DatabaseEvent(id, cap) ==
    [id |-> id, capacity |-> cap, registeredUsers |-> <<>>, registeredCount |-> 0]

\* Admin::Admin(uname, pwd), RegularUser::RegularUser(uname, pwd)
DatabaseUser(id, role) == [id |-> id, role |-> role]

NothingReturned == [op |-> "start", event |-> 0, userId |-> 0, result |-> FALSE]

\* Database::Database()
InitDatabase ==
    /\ database \in [events : { << DatabaseEvent(a, 100), DatabaseEvent(b, 500) >> :
                                    a \in EventIdDraws, b \in EventIdDraws },
                     users : { << DatabaseUser(a, "admin"), DatabaseUser(b, "user"),
                                  DatabaseUser(c, "user") >> :
                                   a \in UserIdDraws, b \in UserIdDraws, c \in UserIdDraws }]
    /\ returned = NothingReturned
    /\ accepted = {}

\* the other program, not started
DatabaseAtRest ==
    /\ database = [events |-> <<>>, users |-> <<>>]
    /\ returned = NothingReturned
    /\ accepted = {}

\* what the program of src/test.cpp leaves alone
DatabaseIdle == UNCHANGED <<database, returned, accepted>>

\* last: op names the operation, ok tells whether it went through, eventId, id
\* and qty are the event id, the item or attendee id and the quantity typed (0
\* where the operation has none); after deleteEvent qty is the number of
\* allocation entries the loop released, after cancelOwnRegistration 1 when a
\* checked-in record was reset, after updateInventoryItemDetails the new total
\* typed (NoQty when the total is kept)
\* the ids of the records of s, in order
IdsOf(s, field) == [j \in 1..Len(s) |-> s[j][field]]

NoOp == [op |-> "start", ok |-> TRUE, eventId |-> 0, id |-> 0, qty |-> 0]

InitStore ==
    /\ users = seedUsers(FirstRunNextId)
    /\ nextUserId = FirstRunNextId + Len(seedUsers(FirstRunNextId))
    /\ events = seedEvents(FirstRunNextId)
    /\ nextEventId = FirstRunNextId + Len(seedEvents(FirstRunNextId))
    /\ inventory = seedInventory(FirstRunNextId)
    /\ nextItemId = FirstRunNextId + Len(seedInventory(FirstRunNextId))
    /\ allAttendees = <<>>
    /\ nextAttendeeId = FirstRunNextId
    /\ currentUser = NoUser
    /\ files = saveData(Store(seedUsers(FirstRunNextId), seedEvents(FirstRunNextId),
                               seedInventory(FirstRunNextId), <<>>,
                               FirstId, FirstId, FirstId, FirstId))
    /\ last = NoOp
    /\ assigned = [users |-> IdsOf(seedUsers(FirstRunNextId), "userId"),
                   events |-> IdsOf(seedEvents(FirstRunNextId), "eventId"),
                   items |-> IdsOf(seedInventory(FirstRunNextId), "itemId")]
    /\ checkedInFor = {}

\* the program of src/test.cpp after its first start
Init == InitStore /\ DatabaseAtRest

(***************************************************************************)
(* Who is at the menu.  Admin::displayMenu and RegularUser::displayMenu    *)
(* run only while sys.currentUser is that user, and the main menu of       *)
(* System::run only while currentUser is null.                             *)
(***************************************************************************)
\* the process is alive: no exception has left main()
Running == last.op # "terminate"
AtMainMenu == Running /\ currentUser = NoUser
AtAdminMenu == currentUser # NoUser /\ users[currentUser].role = "ADMIN"
AtRegularUserMenu == currentUser # NoUser /\ users[currentUser].role = "REGULAR_USER"

Did(op, ok, eventId, id, qty) ==
    [op |-> op, ok |-> ok, eventId |-> eventId, id |-> id, qty |-> qty]

\* assigned after an operation of the menus: the operations that construct a new
\* user, event or item hand out the id they report
assignedAfter(op, ok, eventId, id) ==
    IF ok /\ op \in {"adminCreateUser", "publicRegisterNewUser"}
    THEN [assigned EXCEPT !.users = Append(@, id)]
    ELSE IF ok /\ op = "createEvent"
    THEN [assigned EXCEPT !.events = Append(@, eventId)]
    ELSE IF ok /\ op = "addInventoryItem"
    THEN [assigned EXCEPT !.items = Append(@, id)]
    ELSE assigned

\* checkedInFor after an operation of the menus: a check-in that went through
\* is recorded for its event, and a registration that ends (cancelled, or the
\* event deleted) or begins takes the record of that event away
checkedInForAfter(op, ok, eventId, id) ==
    IF ok /\ op = "checkInAttendeeForEvent"
    THEN checkedInFor \cup { << eventId, id >> }
    ELSE IF ok /\ op = "cancelOwnRegistration"
    THEN checkedInFor \ { << eventId, id >> }
    ELSE IF ok /\ op = "deleteEvent"
    THEN { p \in checkedInFor : p[1] # eventId }
    ELSE IF /\ ok /\ op = "registerAttendeeForEvent"
            /\ \A k \in 1..Len(events) :
                   events[k].eventId = eventId => ~SeqContains(events[k].attendeeIds, id)
    THEN checkedInFor \ { << eventId, id >> }
    ELSE checkedInFor

\* the files after saveUsers(), saveEvents(), saveInventory(), saveAttendees()
usersSaved(fs, us) == [fs EXCEPT !.users = saveUsers(us)]
eventsSaved(fs, evs) == [fs EXCEPT !.events = saveEvents(evs)]
inventorySaved(fs, inv) == [fs EXCEPT !.inventory = saveInventory(inv)]
attendeesSaved(fs, atts) == [fs EXCEPT !.attendees = saveAttendees(atts)]

\* the record of an operation of the menus
Done(op, ok, eventId, id, qty) ==
    /\ last' = Did(op, ok, eventId, id, qty)
    /\ DatabaseIdle
    /\ assigned' = assignedAfter(op, ok, eventId, id)
    /\ checkedInFor' = checkedInForAfter(op, ok, eventId, id)

\* what is typed at the login prompt
LoginInputs == { <<"admin", "password">>, <<"user1", "pass123">>, <<"user1", "password">> }

\* bool System::login(): the first user with that username and password
login(uname, pwd) ==
    /\ AtMainMenu
    /\ LET hit == { j \in 1..Len(users) :
                        users[j].username = uname /\ users[j].password = pwd }
           u == IF hit = {} THEN NoUser
                ELSE CHOOSE j \in hit : \A k \in hit : j <= k
       IN /\ currentUser' = u
          /\ Done("login", u # NoUser, 0, 0, 0)
    /\ UNCHANGED <<users, events, inventory, allAttendees,
                   nextUserId, nextEventId, nextItemId, nextAttendeeId, files>>

\* void System::logout(), from the Logout entry of either menu
logout ==
    /\ currentUser # NoUser
    /\ currentUser' = NoUser
    /\ Done("logout", TRUE, 0, 0, 0)
    /\ UNCHANGED <<users, events, inventory, allAttendees,
                   nextUserId, nextEventId, nextItemId, nextAttendeeId, files>>

(***************************************************************************)
(* Event management (admin menu).                                          *)
(***************************************************************************)
EventIdInputs == 1..MaxEventPick
ItemIdInputs == 1..MaxItemPick
\* what is typed at the new-status prompt (1..4 are statuses, anything else is refused)
StatusChoiceInputs == { 1, 3, 5 }
StatusOfChoice(choice) ==
    CASE choice = 1 -> "UPCOMING"
      [] choice = 2 -> "ONGOING"
      [] choice = 3 -> "COMPLETED"
      [] choice = 4 -> "CANCELED"
      [] OTHER      -> "none"

\* a program that treats no event as closed
IsClosedNever(event) == FALSE

\* event->status == EventStatus::COMPLETED || event->status == EventStatus::CANCELED
IsClosed(event) == event.status = "COMPLETED" \/ event.status = "CANCELED"

\* names typed at the create-event prompt
EventNameInputs == { "Art Workshop" }

\* a createEvent that refuses a name an event already has
createEventUniqueName(name) ==
    /\ AtAdminMenu
    /\ nextEventId < FirstRunNextId + 3 + MaxNewEvents
    /\ IF \E j \in 1..Len(events) : events[j].name = name
       THEN /\ Done("createEvent", FALSE, 0, 0, 0)
            /\ UNCHANGED <<events, nextEventId, files>>
       ELSE /\ events' = Append(events, NewEvent(nextEventId, name))
            /\ nextEventId' = nextEventId + 1
            /\ files' = eventsSaved(files, events')
            /\ Done("createEvent", TRUE, nextEventId, 0, 0)
    /\ UNCHANGED <<users, inventory, allAttendees, currentUser,
                   nextUserId, nextItemId, nextAttendeeId>>

\* void System::createEvent()
createEvent(name) ==
    /\ AtAdminMenu
    /\ nextEventId < FirstRunNextId + 3 + MaxNewEvents
    /\ events' = Append(events, NewEvent(nextEventId, name))
    /\ nextEventId' = nextEventId + 1
    /\ files' = eventsSaved(files, events')
    /\ Done("createEvent", TRUE, nextEventId, 0, 0)
    /\ UNCHANGED <<users, inventory, allAttendees, currentUser,
                   nextUserId, nextItemId, nextAttendeeId>>

\* deleteEvent without its release loop
deallocateNone(inv, map, keys) == inv

\* the loop of deleteEvent over eventToDel->allocatedInventory, in key order:
\* item->deallocate(qty) for every entry whose item is found
RECURSIVE deallocateAll(_, _, _)
deallocateAll(inv, map, keys) ==
    IF keys = {} THEN inv
    ELSE LET invId == CHOOSE k \in keys : \A x \in keys : k <= x
             item == findInventoryItemById(inv, invId)
             inv2 == IF item # NotFound
                     THEN [inv EXCEPT ![item] = deallocate(@, map[invId]).item]
                     ELSE inv
         IN deallocateAll(inv2, map, keys \ {invId})

\* std::remove_if + erase: every event with that id goes, the order of the rest is kept
RECURSIVE eraseEvents(_, _)
eraseEvents(evs, eventId) ==
    IF evs = <<>> THEN <<>>
    ELSE IF Head(evs).eventId = eventId
         THEN eraseEvents(Tail(evs), eventId)
         ELSE <<Head(evs)>> \o eraseEvents(Tail(evs), eventId)

\* void System::deleteEvent()
deleteEvent(eventId) ==
    /\ AtAdminMenu
    /\ LET eventToDel == findEventById(events, eventId) IN
       IF eventToDel = NotFound
       THEN /\ Done("deleteEvent", FALSE, 0, 0, 0)
            /\ UNCHANGED <<events, inventory, files>>
       ELSE /\ inventory' = deallocateAll(inventory,
                                events[eventToDel].allocatedInventory,
                                DOMAIN events[eventToDel].allocatedInventory)
            /\ events' = eraseEvents(events, eventId)
            /\ files' = inventorySaved(eventsSaved(files, events'), inventory')
            /\ Done("deleteEvent", TRUE, eventId, 0,
                            Cardinality(DOMAIN events[eventToDel].allocatedInventory))
    /\ UNCHANGED <<users, allAttendees, currentUser,
                   nextUserId, nextEventId, nextItemId, nextAttendeeId>>

\* void System::updateEventStatus()
\* updateEventStatus that also gives up what is allocated to the event
updateEventStatusReleasing(eventId, choice) ==
    /\ AtAdminMenu
    /\ LET event == findEventById(events, eventId) IN
       IF event = NotFound \/ StatusOfChoice(choice) = "none"
       THEN /\ Done("updateEventStatus", FALSE, 0, 0, 0)
            /\ UNCHANGED <<events, files>>
       ELSE /\ events' = [events EXCEPT ![event].status = StatusOfChoice(choice),
                                        ![event].allocatedInventory = EmptyMap]
            /\ files' = eventsSaved(files, events')
            /\ Done("updateEventStatus", TRUE, eventId, 0, 0)
    /\ UNCHANGED <<users, inventory, allAttendees, currentUser,
                   nextUserId, nextEventId, nextItemId, nextAttendeeId>>

updateEventStatus(eventId, choice) ==
    /\ AtAdminMenu
    /\ LET event == findEventById(events, eventId) IN
       IF event = NotFound \/ StatusOfChoice(choice) = "none"
       THEN /\ Done("updateEventStatus", FALSE, 0, 0, 0)
            /\ UNCHANGED <<events, files>>
       ELSE /\ events' = [events EXCEPT ![event].status = StatusOfChoice(choice)]
            /\ files' = eventsSaved(files, events')
            /\ Done("updateEventStatus", TRUE, eventId, 0, 0)
    /\ UNCHANGED <<users, inventory, allAttendees, currentUser,
                   nextUserId, nextEventId, nextItemId, nextAttendeeId>>

(***************************************************************************)
(* Inventory management (admin menu).                                      *)
(***************************************************************************)
\* names typed at the add-item prompt
ItemNameInputs == { "projector", "Lamp" }
\* names typed at the update-item prompt; "" keeps the name
RenameInputs == { "", "projector" }
\* what is typed at the new-total prompt; "" keeps the total
NoQty == -99
TotalInputs == { NoQty } \cup (-1..MaxTotal)

\* void System::addInventoryItem(): the quantity comes from getPositiveIntInput
addInventoryItem(name, quantity) ==
    /\ AtAdminMenu
    /\ nextItemId < FirstRunNextId + 3 + MaxNewItems
    /\ IF findInventoryItemByName(inventory, name) # NotFound
       THEN /\ Done("addInventoryItem", FALSE, 0, 0, 0)
            /\ UNCHANGED <<inventory, nextItemId, files>>
       ELSE /\ inventory' = Append(inventory, NewInventoryItem(nextItemId, name, quantity))
            /\ nextItemId' = nextItemId + 1
            /\ files' = inventorySaved(files, inventory')
            /\ Done("addInventoryItem", TRUE, 0, nextItemId, 0)
    /\ UNCHANGED <<users, events, allAttendees, currentUser,
                   nextUserId, nextEventId, nextAttendeeId>>

\* void System::updateInventoryItemDetails(): the name, then the total quantity
updateInventoryItemDetails(itemId, temp, newQty) ==
    /\ AtAdminMenu
    /\ LET item == findInventoryItemById(inventory, itemId) IN
       IF item = NotFound
       THEN /\ Done("updateInventoryItemDetails", FALSE, 0, 0, 0)
            /\ UNCHANGED <<inventory, files>>
       ELSE LET existingByName == findInventoryItemByName(inventory, temp)
                renamed ==
                    IF temp = "" THEN inventory[item]
                    ELSE IF existingByName # NotFound
                            /\ inventory[existingByName].itemId # inventory[item].itemId
                         THEN inventory[item]
                         ELSE [inventory[item] EXCEPT !.name = temp]
                updated == IF newQty = NoQty THEN renamed
                           ELSE setTotalQuantity(renamed, newQty)
            IN /\ inventory' = [inventory EXCEPT ![item] = updated]
               /\ files' = inventorySaved(files, inventory')
               /\ Done("updateInventoryItemDetails", TRUE, 0, itemId, newQty)
    /\ UNCHANGED <<users, events, allAttendees, currentUser,
                   nextUserId, nextEventId, nextItemId, nextAttendeeId>>

\* void System::trackInventoryAllocationToEvent(); choice 1 allocates, 2 deallocates,
\* anything else cancels; the quantity comes from getPositiveIntInput
trackInventoryAllocationToEvent(eventId, itemId, choice, quantity) ==
    /\ AtAdminMenu
    /\ LET event == findEventById(events, eventId)
           item == findInventoryItemById(inventory, itemId)
       IN
       IF event = NotFound
       THEN /\ Done("trackInventoryAllocationToEvent", FALSE, 0, 0, 0)
            /\ UNCHANGED <<events, inventory, files>>
       ELSE IF IsClosed(events[event])
       THEN /\ Done("trackInventoryAllocationToEvent", FALSE, 0, 0, 0)
            /\ UNCHANGED <<events, inventory, files>>
       ELSE IF item = NotFound
       THEN /\ Done("trackInventoryAllocationToEvent", FALSE, 0, 0, 0)
            /\ UNCHANGED <<events, inventory, files>>
       ELSE IF choice = 1
       THEN LET r == allocate(inventory[item], quantity) IN
            /\ r.item.allocatedQuantity <= MaxAlloc
            /\ IF r.ok
               THEN /\ inventory' = [inventory EXCEPT ![item] = r.item]
                    /\ events' = [events EXCEPT ![event] =
                                     allocateInventoryItem(@, itemId, quantity)]
                    /\ files' = eventsSaved(inventorySaved(files, inventory'), events')
               ELSE UNCHANGED <<events, inventory, files>>
            /\ Done("allocate", r.ok, eventId, itemId, quantity)
       ELSE IF choice = 2
       THEN LET currentlyAllocatedToThisEvent ==
                    MapGet(events[event].allocatedInventory, itemId)
                d == deallocateInventoryItem(events[event], itemId, quantity)
            IN
            IF currentlyAllocatedToThisEvent = 0
            THEN /\ Done("deallocate", FALSE, eventId, itemId, quantity)
                 /\ UNCHANGED <<events, inventory, files>>
            ELSE /\ events' = [events EXCEPT ![event] = d.event]
                 /\ inventory' = IF d.actual > 0
                                 THEN [inventory EXCEPT ![item] = deallocate(@, d.actual).item]
                                 ELSE inventory
                 /\ files' = IF d.actual > 0
                             THEN eventsSaved(inventorySaved(files, inventory'), events')
                             ELSE files
                 /\ Done("deallocate", d.actual > 0, eventId, itemId, quantity)
       ELSE /\ Done("trackInventoryAllocationToEvent", FALSE, 0, 0, 0)
            /\ UNCHANGED <<events, inventory, files>>
    /\ UNCHANGED <<users, allAttendees, currentUser,
                   nextUserId, nextEventId, nextItemId, nextAttendeeId>>

(***************************************************************************)
(* The inventory side of the program: an administrator logs in and works   *)
(* through the event and inventory menus.                                  *)
(***************************************************************************)
NextAlloc ==
    \/ \E c \in LoginInputs : login(c[1], c[2])
    \/ \E n \in EventNameInputs : createEvent(n)
    \/ \E e \in EventIdInputs : deleteEvent(e)
    \/ \E e \in EventIdInputs, c \in StatusChoiceInputs : updateEventStatus(e, c)
    \/ \E n \in ItemNameInputs : addInventoryItem(n, MaxQty)
    \/ \E i \in ItemIdInputs, t \in TotalInputs : updateInventoryItemDetails(i, "", t)
    \/ \E e \in EventIdInputs, i \in ItemIdInputs, c \in 1..3, q \in 1..MaxQty :
           trackInventoryAllocationToEvent(e, i, c, q)

SpecAlloc == Init /\ [][NextAlloc]_vars

(***************************************************************************)
(* Attendee management: registration from either menu, cancellation and    *)
(* the contact profile from the regular user's menu, check-in from the     *)
(* admin's.                                                                *)
(***************************************************************************)
\* attendee ids typed at the check-in prompt
AttendeeIdInputs == { FirstRunNextId + 1 + n : n \in 1..MaxAttendeePick }
\* what a regular user types as contact info at the first registration, and at
\* the update-contact prompt
FirstContact == "c1"
ContactInputs == { "c2" }

\* registration open for every status
RegistrationOpenAlways(event) == TRUE

\* the status test of registerAttendeeForEvent: only Upcoming and Ongoing pass
RegistrationOpen(event) == event.status = "UPCOMING" \/ event.status = "ONGOING"

\* void System::registerAttendeeForEvent()
registerAttendeeForEvent(eventId) ==
    /\ currentUser # NoUser
    /\ LET event == findEventById(events, eventId) IN
       IF event = NotFound
       THEN /\ Done("registerAttendeeForEvent", FALSE, eventId, 0, 0)
            /\ UNCHANGED <<events, allAttendees, nextAttendeeId, files>>
       ELSE IF ~RegistrationOpen(events[event])
       THEN /\ Done("registerAttendeeForEvent", FALSE, eventId, 0, 0)
            /\ UNCHANGED <<events, allAttendees, nextAttendeeId, files>>
       ELSE IF users[currentUser].role = "REGULAR_USER"
       THEN LET attendeeMasterIdToRegister == users[currentUser].userId
                userProfile == findAttendeeInMasterList(allAttendees,
                                                        attendeeMasterIdToRegister)
            IN /\ IF userProfile # NotFound
                  THEN /\ allAttendees' = [allAttendees EXCEPT
                                              ![userProfile].eventIdRegisteredFor = eventId]
                       /\ UNCHANGED nextAttendeeId
                  ELSE /\ allAttendees' = Append(allAttendees,
                              NewAttendee(attendeeMasterIdToRegister,
                                          users[currentUser].username,
                                          FirstContact, eventId, FALSE))
                       /\ nextAttendeeId' = nextAttendeeIdAfter(nextAttendeeId,
                                                                attendeeMasterIdToRegister)
               /\ events' = [events EXCEPT ![event] =
                                addAttendee(@, attendeeMasterIdToRegister)]
               /\ files' = attendeesSaved(eventsSaved(files, events'), allAttendees')
               /\ Done("registerAttendeeForEvent", TRUE, eventId,
                              attendeeMasterIdToRegister, 0)
       ELSE /\ Len(allAttendees) < MaxAttendees
            /\ allAttendees' = Append(allAttendees,
                   NewAttendee(nextAttendeeId, "guest", FirstContact, eventId, FALSE))
            /\ nextAttendeeId' = nextAttendeeId + 1
            /\ events' = [events EXCEPT ![event] = addAttendee(@, nextAttendeeId)]
            /\ files' = attendeesSaved(eventsSaved(files, events'), allAttendees')
            /\ Done("registerAttendeeForEvent", TRUE, eventId, nextAttendeeId, 0)
    /\ UNCHANGED <<users, inventory, currentUser, nextUserId, nextEventId, nextItemId>>

\* void System::cancelOwnRegistration()
cancelOwnRegistration(eventIdToCancel) ==
    /\ AtRegularUserMenu
    /\ LET userAttendeeId == users[currentUser].userId
           foundReg == \E k \in 1..Len(events) :
                           SeqContains(events[k].attendeeIds, userAttendeeId)
           event == findEventById(events, eventIdToCancel)
       IN
       IF ~foundReg
       THEN /\ Done("cancelOwnRegistration", FALSE, 0, userAttendeeId, 0)
            /\ UNCHANGED <<events, allAttendees, files>>
       ELSE IF event = NotFound
       THEN /\ Done("cancelOwnRegistration", FALSE, eventIdToCancel, userAttendeeId, 0)
            /\ UNCHANGED <<events, allAttendees, files>>
       ELSE IF IsClosed(events[event])
       THEN /\ Done("cancelOwnRegistration", FALSE, eventIdToCancel, userAttendeeId, 0)
            /\ UNCHANGED <<events, allAttendees, files>>
       ELSE IF SeqContains(events[event].attendeeIds, userAttendeeId)
       THEN LET userProfile == findAttendeeInMasterList(allAttendees, userAttendeeId) IN
            /\ events' = [events EXCEPT ![event] = removeAttendee(@, userAttendeeId)]
            /\ allAttendees' =
                   IF userProfile # NotFound
                      /\ allAttendees[userProfile].eventIdRegisteredFor = eventIdToCancel
                   THEN [allAttendees EXCEPT ![userProfile].eventIdRegisteredFor = 0,
                                             ![userProfile].isCheckedIn = FALSE]
                   ELSE allAttendees
            /\ files' = attendeesSaved(eventsSaved(files, events'), allAttendees')
            /\ Done("cancelOwnRegistration", TRUE, eventIdToCancel, userAttendeeId,
                           IF userProfile # NotFound
                              /\ allAttendees[userProfile].eventIdRegisteredFor = eventIdToCancel
                              /\ allAttendees[userProfile].isCheckedIn
                           THEN 1 ELSE 0)
       ELSE /\ Done("cancelOwnRegistration", FALSE, eventIdToCancel, userAttendeeId, 0)
            /\ UNCHANGED <<events, allAttendees, files>>
    /\ UNCHANGED <<users, inventory, currentUser,
                   nextUserId, nextEventId, nextItemId, nextAttendeeId>>

\* void System::checkInAttendeeForEvent(); confirmOngoing is the answer to the
\* question asked when the event is still Upcoming
checkInAttendeeForEvent(eventId, confirmOngoing, attendeeIdToCheckIn) ==
    /\ AtAdminMenu
    /\ LET event == findEventById(events, eventId) IN
       IF event = NotFound
       THEN /\ Done("checkInAttendeeForEvent", FALSE, 0, 0, 0)
            /\ UNCHANGED <<events, allAttendees, files>>
       ELSE IF IsClosed(events[event])
       THEN /\ Done("checkInAttendeeForEvent", FALSE, 0, 0, 0)
            /\ UNCHANGED <<events, allAttendees, files>>
       ELSE IF events[event].status = "UPCOMING" /\ confirmOngoing # "y"
       THEN /\ Done("checkInAttendeeForEvent", FALSE, 0, 0, 0)
            /\ UNCHANGED <<events, allAttendees, files>>
       ELSE LET attendeeToModify ==
                    findAttendeeInMasterList(allAttendees, attendeeIdToCheckIn)
                isRegisteredForThisEvent ==
                    SeqContains(events[event].attendeeIds, attendeeIdToCheckIn)
            IN /\ events' = [events EXCEPT ![event].status = "ONGOING"]
               /\ IF /\ events[event].attendeeIds # <<>>
                     /\ isRegisteredForThisEvent
                     /\ attendeeToModify # NotFound
                  THEN /\ allAttendees' = [allAttendees EXCEPT
                                              ![attendeeToModify] = checkIn(@)]
                       /\ files' = attendeesSaved(
                                       IF events[event].status = "UPCOMING"
                                       THEN eventsSaved(files, events') ELSE files,
                                       allAttendees')
                       /\ Done("checkInAttendeeForEvent", TRUE, eventId,
                                      attendeeIdToCheckIn, 0)
                  ELSE /\ UNCHANGED allAttendees
                       /\ files' = IF events[event].status = "UPCOMING"
                                   THEN eventsSaved(files, events') ELSE files
                       /\ Done("checkInAttendeeForEvent", FALSE, 0, 0, 0)
    /\ UNCHANGED <<users, inventory, currentUser,
                   nextUserId, nextEventId, nextItemId, nextAttendeeId>>

\* void System::updateCurrentLoggedInUserContactInfo()
updateCurrentLoggedInUserContactInfo(newContact) ==
    /\ AtRegularUserMenu
    /\ LET userAttendeeId == users[currentUser].userId
           userProfile == findAttendeeInMasterList(allAttendees, userAttendeeId)
       IN /\ IF userProfile # NotFound
             THEN /\ allAttendees' = [allAttendees EXCEPT
                                         ![userProfile].contactInfo = newContact]
                  /\ UNCHANGED nextAttendeeId
             ELSE /\ allAttendees' = Append(allAttendees,
                         NewAttendee(userAttendeeId, users[currentUser].username,
                                     newContact, 0, FALSE))
                  /\ nextAttendeeId' = nextAttendeeIdAfter(nextAttendeeId, userAttendeeId)
          /\ files' = attendeesSaved(files, allAttendees')
          /\ Done("updateCurrentLoggedInUserContactInfo", TRUE, 0, userAttendeeId, 0)
    /\ UNCHANGED <<users, events, inventory, currentUser,
                   nextUserId, nextEventId, nextItemId>>

(***************************************************************************)
(* The attendee side of the program: the administrator and the seeded      *)
(* regular user log in and out in turn; events are closed from the admin   *)
(* menu.                                                                   *)
(***************************************************************************)
\* event ids typed by an admin who registers a guest
GuestEventInputs == 1..MaxGuestEventPick
\* statuses picked at the new-status prompt on this side: Completed, Canceled
ClosingChoiceInputs == { 3, 4 }

NextReg ==
    \/ \E c \in LoginInputs : login(c[1], c[2])
    \/ logout
    \/ \E e \in EventIdInputs, c \in ClosingChoiceInputs : updateEventStatus(e, c)
    \/ \E e \in EventIdInputs : AtRegularUserMenu /\ registerAttendeeForEvent(e)
    \/ \E e \in GuestEventInputs : AtAdminMenu /\ registerAttendeeForEvent(e)
    \/ \E e \in EventIdInputs : cancelOwnRegistration(e)
    \/ \E e \in EventIdInputs, y \in {"y", "n"}, a \in AttendeeIdInputs :
           checkInAttendeeForEvent(e, y, a)
    \/ \E c \in ContactInputs : updateCurrentLoggedInUserContactInfo(c)

SpecReg == Init /\ [][NextReg]_vars

(***************************************************************************)
(* The attendee side with events deleted instead of closed.                *)
(***************************************************************************)
NextCheckIn ==
    \/ \E c \in LoginInputs : login(c[1], c[2])
    \/ logout
    \/ \E e \in EventIdInputs : deleteEvent(e)
    \/ \E e \in EventIdInputs : AtRegularUserMenu /\ registerAttendeeForEvent(e)
    \/ \E e \in GuestEventInputs : AtAdminMenu /\ registerAttendeeForEvent(e)
    \/ \E e \in EventIdInputs : cancelOwnRegistration(e)
    \/ \E e \in EventIdInputs, y \in {"y", "n"}, a \in AttendeeIdInputs :
           checkInAttendeeForEvent(e, y, a)
    \/ \E c \in ContactInputs : updateCurrentLoggedInUserContactInfo(c)

SpecCheckIn == Init /\ [][NextCheckIn]_vars

(***************************************************************************)
(* The inventory menu alone: items are added, renamed and resized.         *)
(***************************************************************************)
NextItems ==
    \/ \E c \in LoginInputs : login(c[1], c[2])
    \/ \E n \in ItemNameInputs : addInventoryItem(n, MaxQty)
    \/ \E i \in ItemIdInputs, n \in RenameInputs \cup {"Lamp", "MICROPHONE"}, t \in TotalInputs :
           updateInventoryItemDetails(i, n, t)

SpecItems == Init /\ [][NextItems]_vars

(***************************************************************************)
(* User account management: the admin's user menu and the main menu's      *)
(* Register New Account.                                                   *)
(***************************************************************************)
\* usernames and passwords typed at the prompts
UsernameInputs == { "admin", "Admin", "bob" }
PasswordInputs == { "secret1", "short" }
\* what is typed at the role prompt
RoleChoiceInputs == { 1, 2, 3 }
\* logins on this side: the seeded admin, a created account, a wrong password
UserLoginInputs == { <<"admin", "password">>, <<"bob", "secret1">>, <<"bob", "short">> }

\* void System::createUserAccount(uname, pwd, role): the users afterwards
createUserAccount(us, next, uname, pwd, role) ==
    IF role = "ADMIN" \/ role = "REGULAR_USER"
    THEN Append(us, NewUser(next, uname, pwd, role))
    ELSE us

\* case 1 of Admin::adminUserManagementMenu
adminCreateUser(uname, pwd, roleChoiceNum) ==
    /\ AtAdminMenu
    /\ nextUserId < FirstRunNextId + 3 + MaxNewUsers
    /\ IF usernameExists(users, uname) \/ Length(pwd) < MinPasswordLength
       THEN /\ Done("adminCreateUser", FALSE, 0, 0, 0)
            /\ UNCHANGED <<users, nextUserId, files>>
       ELSE /\ users' = createUserAccount(users, nextUserId, uname, pwd,
                            IF roleChoiceNum = 1 THEN "ADMIN" ELSE "REGULAR_USER")
            /\ nextUserId' = nextUserId + 1
            /\ files' = usersSaved(files, users')
            /\ Done("adminCreateUser", TRUE, 0, nextUserId, 0)
    /\ UNCHANGED <<events, inventory, allAttendees, currentUser,
                   nextEventId, nextItemId, nextAttendeeId>>

\* void System::publicRegisterNewUser()
publicRegisterNewUser(uname, pwd, roleChoiceNum) ==
    /\ AtMainMenu
    /\ nextUserId < FirstRunNextId + 3 + MaxNewUsers
    /\ IF \/ usernameExists(users, uname)
          \/ Length(pwd) < MinPasswordLength
          \/ roleChoiceNum \notin {1, 2}
       THEN /\ Done("publicRegisterNewUser", FALSE, 0, 0, 0)
            /\ UNCHANGED <<users, nextUserId, files>>
       ELSE /\ users' = createUserAccount(users, nextUserId, uname, pwd,
                            IF roleChoiceNum = 1 THEN "ADMIN" ELSE "REGULAR_USER")
            /\ nextUserId' = nextUserId + 1
            /\ files' = usersSaved(files, users')
            /\ Done("publicRegisterNewUser", TRUE, 0, nextUserId, 0)
    /\ UNCHANGED <<events, inventory, allAttendees, currentUser,
                   nextEventId, nextItemId, nextAttendeeId>>

\* a menu that lets the admin delete any account
IsOwnUsernameNever(us, cur, uname) == FALSE

\* the test of case 2 of Admin::adminUserManagementMenu, repeated in the lambda
\* of deleteUserAccount: uname is the logged-in user's own username
IsOwnUsername(us, cur, uname) == cur # NoUser /\ us[cur].username = uname

\* the users std::remove_if keeps, in order
RECURSIVE eraseUsers(_, _)
eraseUsers(us, uname) ==
    IF us = <<>> THEN <<>>
    ELSE IF Head(us).username = uname
         THEN eraseUsers(Tail(us), uname)
         ELSE <<Head(us)>> \o eraseUsers(Tail(us), uname)

\* where the User that currentUser points at is after the erase
currentUserAfterErase(us, cur, uname) ==
    IF cur = NoUser THEN NoUser
    ELSE IF us[cur].username = uname THEN Dangling
    ELSE cur - Cardinality({ j \in 1..(cur - 1) : us[j].username = uname })

\* case 2 of Admin::adminUserManagementMenu and void System::deleteUserAccount(uname)
deleteUserAccount(uname) ==
    /\ AtAdminMenu
    /\ IF IsOwnUsername(users, currentUser, uname)
       THEN /\ Done("deleteUserAccount", FALSE, 0, 0, 0)
            /\ UNCHANGED <<users, currentUser, files>>
       ELSE IF usernameExists(users, uname)
       THEN /\ users' = eraseUsers(users, uname)
            /\ currentUser' = currentUserAfterErase(users, currentUser, uname)
            /\ files' = usersSaved(files, users')
            /\ Done("deleteUserAccount", TRUE, 0, 0, 0)
       ELSE /\ Done("deleteUserAccount", FALSE, 0, 0, 0)
            /\ UNCHANGED <<users, currentUser, files>>
    /\ UNCHANGED <<events, inventory, allAttendees,
                   nextUserId, nextEventId, nextItemId, nextAttendeeId>>

NextUsers ==
    \/ \E c \in UserLoginInputs : login(c[1], c[2])
    \/ logout
    \/ \E n \in UsernameInputs, w \in PasswordInputs, r \in RoleChoiceInputs :
           adminCreateUser(n, w, r)
    \/ \E n \in UsernameInputs, w \in PasswordInputs, r \in RoleChoiceInputs :
           publicRegisterNewUser(n, w, r)
    \/ \E n \in UsernameInputs \cup {"user1"} : deleteUserAccount(n)

SpecUsers == Init /\ [][NextUsers]_vars

(***************************************************************************)
(* Loading.                                                                *)
(***************************************************************************)
\* the constructors that are given the id: if (id >= nextId) nextId = id + 1
nextIdAfterLoaded(next, id) == IF id >= next THEN id + 1 ELSE next

\* the while loop of loadUsers, loadEvents, loadInventory and loadAttendees
\* over the decoded lines: an entity is pushed at the back of the collection
\* and its constructor moves the counter, a skipped line leaves both alone,
\* an exception leaves the loop and the function
RECURSIVE pushLoaded(_, _, _, _)
pushLoaded(coll, next, decoded, idField) ==
    IF decoded = <<>> THEN [thrown |-> FALSE, coll |-> coll, next |-> next]
    ELSE LET d == Head(decoded) IN
         IF d.kind = "throw" THEN [thrown |-> TRUE, coll |-> coll, next |-> next]
         ELSE IF d.kind = "skip" THEN pushLoaded(coll, next, Tail(decoded), idField)
         ELSE pushLoaded(Append(coll, d.entity),
                         nextIdAfterLoaded(next, d.entity[idField]),
                         Tail(decoded), idField)

\* void System::loadUsers()
loadUsers(us, next, lines) ==
    pushLoaded(us, next, [j \in 1..Len(lines) |-> UserFromString(lines[j])], "userId")

\* void System::loadEvents()
loadEvents(evs, next, lines) ==
    pushLoaded(evs, next, [j \in 1..Len(lines) |-> EventFromString(lines[j])], "eventId")

\* void System::loadInventory()
loadInventory(inv, next, lines) ==
    pushLoaded(inv, next,
               [j \in 1..Len(lines) |-> InventoryItemFromString(lines[j])], "itemId")

\* void System::loadAttendees()
loadAttendees(atts, next, lines) ==
    pushLoaded(atts, next,
               [j \in 1..Len(lines) |-> AttendeeFromString(lines[j])], "attendeeId")

\* void System::loadData(): the four loads, then initNextId(maxId + 1) per kind;
\* thrown when an exception left one of the loads
loadData(s, fs) ==
    LET u == loadUsers(s.users, s.nextUserId, fs.users)
        e == loadEvents(s.events, s.nextEventId, fs.events)
        i == loadInventory(s.inventory, s.nextItemId, fs.inventory)
        a == loadAttendees(s.allAttendees, s.nextAttendeeId, fs.attendees)
    IN IF e.thrown \/ i.thrown \/ a.thrown
       THEN [thrown |-> TRUE, store |-> s]
       ELSE [thrown |-> FALSE,
             store |-> Store(u.coll, e.coll, i.coll, a.coll,
                 loadDataNextId(u.next, Range(IdsOf(u.coll, "userId"))),
                 loadDataNextId(e.next, Range(IdsOf(e.coll, "eventId"))),
                 loadDataNextId(i.next, Range(IdsOf(i.coll, "itemId"))),
                 loadDataNextId(a.next, Range(IdsOf(a.coll, "attendeeId"))))]

\* a process that has just started: empty collections, every static counter 1
FreshStore == Store(<<>>, <<>>, <<>>, <<>>, FirstId, FirstId, FirstId, FirstId)

\* void System::seedInitialData(): every collection found empty gets its three
\* records, made by the constructors of new entities
seedInitialData(s) ==
    [s EXCEPT
        !.users = IF s.users = <<>> THEN seedUsers(s.nextUserId) ELSE @,
        !.nextUserId = IF s.users = <<>> THEN @ + Len(seedUsers(@)) ELSE @,
        !.events = IF s.events = <<>> THEN seedEvents(s.nextEventId) ELSE @,
        !.nextEventId = IF s.events = <<>> THEN @ + Len(seedEvents(@)) ELSE @,
        !.inventory = IF s.inventory = <<>> THEN seedInventory(s.nextItemId) ELSE @,
        !.nextItemId = IF s.inventory = <<>> THEN @ + Len(seedInventory(@)) ELSE @]

\* the ids seedInitialData(s) hands out, per kind
seededIds(s) ==
    [users |-> IF s.users = <<>> THEN IdsOf(seedUsers(s.nextUserId), "userId") ELSE <<>>,
     events |-> IF s.events = <<>> THEN IdsOf(seedEvents(s.nextEventId), "eventId") ELSE <<>>,
     items |-> IF s.inventory = <<>>
               THEN IdsOf(seedInventory(s.nextItemId), "itemId") ELSE <<>>]

\* main(): System::System() runs loadData(), System::run() runs loadData() again
\* and then seedInitialData(); loaded is the store when the main menu comes up
\* before anything is seeded
startProgram(fs) ==
    LET first == loadData(FreshStore, fs)
        second == loadData(first.store, fs)
    IN IF first.thrown \/ second.thrown
       THEN [thrown |-> TRUE, loaded |-> FreshStore, store |-> FreshStore]
       ELSE [thrown |-> FALSE, loaded |-> second.store,
             store |-> seedInitialData(second.store)]

(***************************************************************************)
(* Between two runs the files may be edited by hand: one line is put in    *)
(* front of, or behind, the lines of one file.                             *)
(***************************************************************************)
EditedLines ==
    << [file |-> "users", line |-> << "x", "eve", "secret1", "0" >>],
       [file |-> "users", line |-> << "1", "eve", "secret1", "7" >>],
       [file |-> "users", line |-> << "1", "eve" >>],
       [file |-> "events", line |-> << "x", "Gala", "0", <<>>, <<>> >>],
       [file |-> "events", line |-> << "1", "Gala", "9", <<>>, <<>> >>],
       [file |-> "events", line |-> << "1", "Gala", "0", <<>>, << <<"2", "x">> >> >>],
       [file |-> "inventory", line |-> << "1", "Lamp", "many", "0" >>],
       [file |-> "attendees", line |-> << "x", "guest", "c1", "0", "0" >>] >>

\* edit 0 leaves the files as they were saved
EditInputs == 0..Len(EditedLines)

editFiles(fs, edit, inFront) ==
    IF edit = 0 THEN fs
    ELSE LET f == EditedLines[edit].file
             l == EditedLines[edit].line
         IN [fs EXCEPT ![f] = IF inFront THEN <<l>> \o @ ELSE Append(@, l)]

\* the current store, as saveData sees it
CurrentStore ==
    Store(users, events, inventory, allAttendees,
          nextUserId, nextEventId, nextItemId, nextAttendeeId)

\* Exit at the main menu, then the program is started again: run() returns,
\* ~System() saves the four files, the files are edited or not, and main()
\* starts over.  An exception that leaves loadData ends the process.  last.qty
\* is the edit made to the files.
restart(edit, inFront) ==
    /\ AtMainMenu
    /\ Len(users) <= MaxLines /\ Len(events) <= MaxLines
    /\ Len(inventory) <= MaxLines /\ Len(allAttendees) <= MaxLines
    /\ \A k \in DOMAIN assigned : Len(assigned[k]) <= MaxHandedOut
    /\ LET edited == editFiles(saveData(CurrentStore), edit, inFront)
           started == startProgram(edited)
           s == started.store
           seeded == seededIds(started.loaded)
       IN /\ files' = IF ~started.thrown /\ s # started.loaded
                      THEN saveData(s) ELSE edited
          /\ users' = s.users
          /\ events' = s.events
          /\ inventory' = s.inventory
          /\ allAttendees' = s.allAttendees
          /\ nextUserId' = s.nextUserId
          /\ nextEventId' = s.nextEventId
          /\ nextItemId' = s.nextItemId
          /\ nextAttendeeId' = s.nextAttendeeId
          /\ currentUser' = NoUser
          /\ last' = Did(IF started.thrown THEN "terminate" ELSE "restart",
                         ~started.thrown, 0, 0, edit)
          /\ DatabaseIdle
          /\ assigned' = IF started.thrown THEN assigned
                         ELSE [k \in DOMAIN assigned |-> assigned[k] \o seeded[k]]
          /\ UNCHANGED checkedInFor

(***************************************************************************)
(* The program over several runs: the administrator creates and deletes    *)
(* users, events and items, leaves through Exit, and the program is        *)
(* started again on the saved files.                                       *)
(***************************************************************************)
\* the administrator's login
AdminLoginInputs == { <<"admin", "password">> }
\* usernames typed on this side
PersistUsernameInputs == { "bob", "eve" }

NextPersist ==
    \/ \E c \in AdminLoginInputs : login(c[1], c[2])
    \/ logout
    \/ \E n \in EventNameInputs : createEvent(n)
    \/ \E e \in EventIdInputs \cup {MaxEventPick + 1} : deleteEvent(e)
    \/ \E n \in ItemNameInputs : addInventoryItem(n, MaxQty)
    \/ \E n \in PersistUsernameInputs : adminCreateUser(n, "secret1", 2)
    \/ \E n \in PersistUsernameInputs : deleteUserAccount(n)
    \/ \E edit \in EditInputs, inFront \in BOOLEAN : restart(edit, inFront)

SpecPersist == Init /\ [][NextPersist]_vars

(***************************************************************************)
(* The line formats alone: each file holds one line, written by the        *)
(* program or by hand, and the program's load and save functions are       *)
(* applied to it.                                                          *)
(***************************************************************************)
UserLines ==
    { << "5", "eve", "secret1", "1" >>,
      << "07", "eve", "secret1", "0" >>,
      << "5", "eve", "secret", "1", "1" >>,
      << "5", "eve", "secret1", "7" >>,
      << "x", "eve", "secret1", "0" >> }

EventLines ==
    { << "5", "Gala", "0", <<>>, <<>> >>,
      << "5", "Gala", "1", << "2", "3" >>, << << "2", "1" >>, << "3", "2" >> >> >>,
      << "5", "Gala", "1", << "2" >>, << << "3", "2" >>, << "2", "1" >> >> >>,
      << "5", "Gala", "0", <<>>, << << "2", "x" >> >> >>,
      << "5", "Gala", "07", <<>>, <<>> >>,
      << "x", "Gala", "0", <<>>, <<>> >> }

InventoryLines ==
    { << "5", "Lamp", "2", "1" >>,
      << "5", "Lamp", "2x", "0" >>,
      << "5", "Lamp", "many", "0" >> }

AttendeeLines ==
    { << "5", "guest", "c1", "2", "1" >>,
      << "5", "guest", "c1", "2", "yes" >>,
      << "5", "guest", "c1", " 7", "0" >>,
      << "x", "guest", "c1", "0", "0" >> }

InitLines ==
    /\ files \in [users : { <<l>> : l \in UserLines },
                  events : { <<l>> : l \in EventLines },
                  inventory : { <<l>> : l \in InventoryLines },
                  attendees : { <<l>> : l \in AttendeeLines }]
    /\ users = <<>> /\ events = <<>> /\ inventory = <<>> /\ allAttendees = <<>>
    /\ currentUser = NoUser
    /\ nextUserId = FirstId /\ nextEventId = FirstId
    /\ nextItemId = FirstId /\ nextAttendeeId = FirstId
    /\ last = NoOp
    /\ assigned = [users |-> <<>>, events |-> <<>>, items |-> <<>>]
    /\ checkedInFor = {}
    /\ DatabaseAtRest

\* the record of a load: an exception that leaves the load ends the process
Loaded(op, r) == Did(IF r.thrown THEN "terminate" ELSE op, ~r.thrown, 0, 0, 0)

\* void System::loadUsers(), on the empty collection
loadUsersFile ==
    /\ Running /\ users = <<>>
    /\ LET r == loadUsers(users, nextUserId, files.users)
       IN /\ users' = r.coll
          /\ nextUserId' = r.next
          /\ last' = Loaded("loadUsers", r)
          /\ DatabaseIdle
    /\ UNCHANGED <<events, inventory, allAttendees, currentUser,
                   nextEventId, nextItemId, nextAttendeeId, files, assigned, checkedInFor>>

\* void System::loadEvents(), on the empty collection
loadEventsFile ==
    /\ Running /\ events = <<>>
    /\ LET r == loadEvents(events, nextEventId, files.events)
       IN /\ events' = r.coll
          /\ nextEventId' = r.next
          /\ last' = Loaded("loadEvents", r)
          /\ DatabaseIdle
    /\ UNCHANGED <<users, inventory, allAttendees, currentUser,
                   nextUserId, nextItemId, nextAttendeeId, files, assigned, checkedInFor>>

\* void System::loadInventory(), on the empty collection
loadInventoryFile ==
    /\ Running /\ inventory = <<>>
    /\ LET r == loadInventory(inventory, nextItemId, files.inventory)
       IN /\ inventory' = r.coll
          /\ nextItemId' = r.next
          /\ last' = Loaded("loadInventory", r)
          /\ DatabaseIdle
    /\ UNCHANGED <<users, events, allAttendees, currentUser,
                   nextUserId, nextEventId, nextAttendeeId, files, assigned, checkedInFor>>

\* void System::loadAttendees(), on the empty collection
loadAttendeesFile ==
    /\ Running /\ allAttendees = <<>>
    /\ LET r == loadAttendees(allAttendees, nextAttendeeId, files.attendees)
       IN /\ allAttendees' = r.coll
          /\ nextAttendeeId' = r.next
          /\ last' = Loaded("loadAttendees", r)
          /\ DatabaseIdle
    /\ UNCHANGED <<users, events, inventory, currentUser,
                   nextUserId, nextEventId, nextItemId, files, assigned, checkedInFor>>

\* void System::saveUsers(), saveEvents(), saveInventory(), saveAttendees()
saveFile(kind) ==
    /\ Running
    /\ files' = CASE kind = "users" -> usersSaved(files, users)
                  [] kind = "events" -> eventsSaved(files, events)
                  [] kind = "inventory" -> inventorySaved(files, inventory)
                  [] OTHER -> attendeesSaved(files, allAttendees)
    /\ last' = Did("save", TRUE, 0, 0, 0)
    /\ DatabaseIdle
    /\ UNCHANGED <<store, assigned, checkedInFor>>

NextLines ==
    \/ loadUsersFile
    \/ loadEventsFile
    \/ loadInventoryFile
    \/ loadAttendeesFile
    \/ \E kind \in {"users", "events", "inventory", "attendees"} : saveFile(kind)

SpecLines == InitLines /\ [][NextLines]_vars

(***************************************************************************)
(* The menus with free text typed at the prompts: getStringInput accepts   *)
(* any text that is not blank, a comma included.                           *)
(***************************************************************************)
TextEventNameInputs == { "Art Workshop", "gala, opening" }
TextItemNameInputs == { "Lamp", "lamp, red" }
TextPasswordInputs == { "secret1", "secret,1" }
TextContactInputs == { "c2", "c2, home" }

NextText ==
    \/ \E c \in LoginInputs : login(c[1], c[2])
    \/ logout
    \/ \E n \in TextEventNameInputs : createEvent(n)
    \/ \E n \in TextItemNameInputs : addInventoryItem(n, MaxQty)
    \/ \E w \in TextPasswordInputs : adminCreateUser("bob", w, 2)
    \/ \E e \in EventIdInputs : AtRegularUserMenu /\ registerAttendeeForEvent(e)
    \/ \E c \in TextContactInputs : updateCurrentLoggedInUserContactInfo(c)

SpecText == Init /\ [][NextText]_vars

(***************************************************************************)
(* Closed events: the administrator closes and reopens two of the seeded   *)
(* events and allocates an item to them, the seeded regular user registers *)
(* and cancels, attendees are checked in.                                  *)
(***************************************************************************)
\* the events worked on, the item allocated and the statuses picked on this
\* side: Upcoming, Completed, Canceled
ClosedEventInputs == { FirstRunNextId, FirstRunNextId + 1 }
ClosedItemInput == FirstRunNextId
ClosedChoiceInputs == { 1, 3, 4 }

NextClosed ==
    \/ \E c \in LoginInputs : login(c[1], c[2])
    \/ logout
    \/ \E e \in ClosedEventInputs, c \in ClosedChoiceInputs : updateEventStatus(e, c)
    \/ \E e \in ClosedEventInputs : AtRegularUserMenu /\ registerAttendeeForEvent(e)
    \/ \E e \in ClosedEventInputs : cancelOwnRegistration(e)
    \/ \E e \in ClosedEventInputs, a \in AttendeeIdInputs :
           checkInAttendeeForEvent(e, "y", a)
    \/ \E e \in ClosedEventInputs, c \in 1..2 :
           trackInventoryAllocationToEvent(e, ClosedItemInput, c, 1)

SpecClosed == Init /\ [][NextClosed]_vars

(***************************************************************************)
(* Status changes: the administrator sets the status of a seeded event     *)
(* that has attendees and an item allocated to it.                         *)
(***************************************************************************)
\* the event ids typed: one no event has and the first seeded event; the
\* choices typed at "Enter choice (1-4)": the four statuses and one more
StatusEventInputs == { FirstRunNextId - 1, FirstRunNextId }
StatusInputs == 1..5

NextStatus ==
    \/ \E c \in LoginInputs : login(c[1], c[2])
    \/ logout
    \/ \E e \in StatusEventInputs, c \in StatusInputs : updateEventStatus(e, c)
    \/ \E e \in StatusEventInputs : AtRegularUserMenu /\ registerAttendeeForEvent(e)
    \/ \E e \in StatusEventInputs : AtAdminMenu /\ registerAttendeeForEvent(e)
    \/ \E e \in StatusEventInputs, c \in 1..2 :
           trackInventoryAllocationToEvent(e, ClosedItemInput, c, 1)
    \/ \E e \in StatusEventInputs : deleteEvent(e)

SpecStatus == Init /\ [][NextStatus]_vars

(***************************************************************************)
(* Registrations, check-ins and deleted events as in SpecCheckIn, and the  *)
(* administrator deletes the account of a user who may be registered.      *)
(***************************************************************************)
NextMembers ==
    \/ NextCheckIn
    \/ \E n \in { "user1" } : deleteUserAccount(n)

SpecMembers == Init /\ [][NextMembers]_vars

(***************************************************************************)
(* Registrations over several runs: users and guests are registered for    *)
(* events, events are created and deleted, and the program is left through *)
(* Exit and started again on the files it saved.                           *)
(***************************************************************************)
\* the event id typed: the seeded event with the highest id
PrimaryEventInputs == { FirstRunNextId + 2 }

NextPrimary ==
    \/ \E c \in LoginInputs : login(c[1], c[2])
    \/ logout
    \/ \E e \in PrimaryEventInputs : AtRegularUserMenu /\ registerAttendeeForEvent(e)
    \/ \E e \in PrimaryEventInputs : AtAdminMenu /\ registerAttendeeForEvent(e)
    \/ \E e \in PrimaryEventInputs : cancelOwnRegistration(e)
    \/ \E e \in PrimaryEventInputs, a \in AttendeeIdInputs :
           checkInAttendeeForEvent(e, "y", a)
    \/ \E n \in EventNameInputs : createEvent(n)
    \/ \E e \in PrimaryEventInputs : deleteEvent(e)
    \/ restart(0, FALSE)

SpecPrimary == Init /\ [][NextPrimary]_vars

(***************************************************************************)
(* src/final_project.cpp: events with a capacity, regular users who        *)
(* register for them and an administrator who updates them.                *)
(***************************************************************************)
MaxCapacity == 2

\* Event* Database::findEventById(int id): the first event with that id
findEventByIdInDatabase(evs, id) ==
    IF \E i \in 1..Len(evs) : evs[i].id = id
    THEN CHOOSE i \in 1..Len(evs) :
             /\ evs[i].id = id
             /\ \A k \in 1..(i - 1) : evs[k].id # id
    ELSE NotFound

\* bool Event::isUserRegistered(int userId)
isUserRegistered(event, userId) ==
    \E i \in 1..event.registeredCount : event.registeredUsers[i] = userId

\* registerUser without the loop over the users already registered
registerUserWithoutLookup(event, userId) ==
    IF event.registeredCount >= event.capacity
    THEN [result |-> FALSE, event |-> event]
    ELSE [result |-> TRUE,
          event |-> [event EXCEPT !.registeredUsers = Append(@, userId),
                                  !.registeredCount = @ + 1]]

\* bool Event::registerUser(int userId): what it returns and the event afterwards
registerUser(event, userId) ==
    IF event.registeredCount >= event.capacity
    THEN [result |-> FALSE, event |-> event]
    ELSE IF \E i \in 1..event.registeredCount : event.registeredUsers[i] = userId
    THEN [result |-> FALSE, event |-> event]
    ELSE [result |-> TRUE,
          event |-> [event EXCEPT !.registeredUsers = Append(@, userId),
                                  !.registeredCount = @ + 1]]

\* void Event::setCapacity(int cap): ValidationException for a capacity that
\* is not positive
setCapacity(event, cap) ==
    IF cap <= 0
    THEN [thrown |-> TRUE, event |-> event]
    ELSE [thrown |-> FALSE, event |-> [event EXCEPT !.capacity = cap]]

Returned(op, event, userId, result) ==
    [op |-> op, event |-> event, userId |-> userId, result |-> result]

\* void registerForEvent(User* user), from the menu of the regular user who is
\* logged in; returned.op tells how it ended
registerForEvent(user, id) ==
    /\ database.users[user].role = "user"
    /\ LET userId == database.users[user].id
           event == findEventByIdInDatabase(database.events, id)
       IN IF event = NotFound
          THEN /\ returned' = Returned("notFound", 0, userId, FALSE)
               /\ UNCHANGED <<database, accepted>>
          ELSE IF isUserRegistered(database.events[event], userId)
          THEN /\ returned' = Returned("alreadyRegistered", event, userId, FALSE)
               /\ UNCHANGED <<database, accepted>>
          ELSE LET r == registerUser(database.events[event], userId)
               IN /\ database' = [database EXCEPT !.events[event] = r.event]
                  /\ returned' = Returned(IF r.result THEN "registered" ELSE "full",
                                          event, userId, r.result)
                  /\ accepted' = IF r.result THEN accepted \cup { << event, userId >> }
                                 ELSE accepted
    /\ UNCHANGED <<store, files, last, assigned, checkedInFor>>

\* void updateEvent(), from the administrator's menu: of the questions asked
\* the one about the capacity is kept; the new capacity comes from
\* getNumericInput(1, 10000) and is asked for again when setCapacity throws
updateEvent(id, updateCapacity, capacity) ==
    /\ LET event == findEventByIdInDatabase(database.events, id)
       IN IF event = NotFound
          THEN /\ returned' = Returned("notFound", 0, 0, FALSE)
               /\ UNCHANGED database
          ELSE LET s == setCapacity(database.events[event], capacity)
               IN /\ ~s.thrown
                  /\ database' = IF updateCapacity
                                 THEN [database EXCEPT !.events[event] = s.event]
                                 ELSE database
                  /\ returned' = Returned("updated", event, 0, FALSE)
    /\ UNCHANGED <<accepted, store, files, last, assigned, checkedInFor>>

\* the event ids typed at the prompts: the ids drawn and one no event has
EventIdPrompts == EventIdDraws \cup { 1003 }

NextFinal ==
    \/ \E user \in 1..Len(database.users), id \in EventIdPrompts :
           registerForEvent(user, id)
    \/ \E id \in EventIdPrompts, y \in BOOLEAN, c \in 1..MaxCapacity :
           updateEvent(id, y, c)

\* the program of src/final_project.cpp after its start
InitFinal == InitStore /\ InitDatabase

SpecFinal == InitFinal /\ [][NextFinal]_vars

(***************************************************************************)
(* src/final_project.cpp with the accounts and events that are added and   *)
(* the events that are deleted.                                            *)
(***************************************************************************)
\* the sizes of Database's arrays users and events: 100 in the source, small
\* here so that the arrays fill up
MAX_USERS == 4
MAX_EVENTS == 2

\* addUser without the test of userCount
addUserUnbounded(db, user) ==
    [thrown |-> FALSE, database |-> [db EXCEPT !.users = Append(@, user)]]

\* void Database::addUser(User* user): DatabaseException when users is full
addUser(db, user) ==
    IF Len(db.users) >= MAX_USERS
    THEN [thrown |-> TRUE, database |-> db]
    ELSE [thrown |-> FALSE, database |-> [db EXCEPT !.users = Append(@, user)]]

\* void Database::addEvent(Event* event): DatabaseException when events is full
addEvent(db, event) ==
    IF Len(db.events) >= MAX_EVENTS
    THEN [thrown |-> TRUE, database |-> db]
    ELSE [thrown |-> FALSE, database |-> [db EXCEPT !.events = Append(@, event)]]

\* bool Database::deleteEvent(int id): the first event with that id leaves
\* and the events behind it move up
deleteEventById(evs, id) ==
    LET i == findEventByIdInDatabase(evs, id)
    IN IF i = NotFound THEN evs
       ELSE [j \in 1..(Len(evs) - 1) |-> IF j < i THEN evs[j] ELSE evs[j + 1]]

\* the program runs until the DatabaseException of addUser, which nothing
\* between RegisterStrategy::authenticate and main catches, ends it
DatabaseRunning == returned.op # "terminated"

\* User* RegisterStrategy::authenticate(), from the menu shown before login:
\* the account gets the id rand() gives
registerAccount(id, role) ==
    /\ DatabaseRunning
    /\ LET a == addUser(database, DatabaseUser(id, role))
       IN /\ database' = a.database
          /\ returned' = Returned(IF a.thrown THEN "terminated" ELSE "userAdded",
                                  0, id, FALSE)
    /\ UNCHANGED <<accepted, store, files, last, assigned, checkedInFor>>

\* void createEvent(), from the administrator's menu: the event gets the id
\* rand() gives; run() catches the DatabaseException of addEvent
createDatabaseEvent(id, capacity) ==
    /\ DatabaseRunning
    /\ LET a == addEvent(database, DatabaseEvent(id, capacity))
       IN /\ database' = a.database
          /\ returned' = Returned(IF a.thrown THEN "databaseException" ELSE "eventAdded",
                                  IF a.thrown THEN 0 ELSE Len(a.database.events), 0, FALSE)
    /\ UNCHANGED <<accepted, store, files, last, assigned, checkedInFor>>

\* void deleteEvent(), from the administrator's menu; sure is the answer to
\* "Are you sure you want to delete this event?"
deleteDatabaseEvent(id, sure) ==
    /\ DatabaseRunning
    /\ LET event == findEventByIdInDatabase(database.events, id)
       IN IF event = NotFound
          THEN /\ returned' = Returned("notFound", 0, 0, FALSE)
               /\ UNCHANGED <<database, accepted>>
          ELSE IF ~sure
          THEN /\ returned' = Returned("cancelled", event, 0, FALSE)
               /\ UNCHANGED <<database, accepted>>
          ELSE /\ database' = [database EXCEPT !.events = deleteEventById(@, id)]
               /\ returned' = Returned("deleted", event, 0, FALSE)
               /\ accepted' = { << IF p[1] > event THEN p[1] - 1 ELSE p[1], p[2] >> :
                                    p \in { q \in accepted : q[1] # event } }
    /\ UNCHANGED <<store, files, last, assigned, checkedInFor>>

\* the ids rand() gives the accounts that register: those of the users
\* Database() made and one more
AccountIdDraws == UserIdDraws \cup { 2004 }

\* the capacities typed: one that fills up and one above MAX_USERS
CapacityPrompts == { 1, MAX_USERS + 1 }

NextDatabase ==
    \/ \E id \in AccountIdDraws, role \in { "admin", "user" } : registerAccount(id, role)
    \/ \E id \in EventIdDraws, c \in CapacityPrompts : createDatabaseEvent(id, c)
    \/ \E id \in EventIdPrompts, sure \in BOOLEAN : deleteDatabaseEvent(id, sure)
    \/ \E user \in 1..Len(database.users), id \in EventIdPrompts :
           DatabaseRunning /\ registerForEvent(user, id)

SpecDatabase == InitFinal /\ [][NextDatabase]_vars

(***************************************************************************)
(* Properties of the inventory side.                                       *)
(***************************************************************************)
\* the sum over the events of evs of their entry for itemId, 0 where absent
RECURSIVE SumAllocated(_, _)
SumAllocated(evs, itemId) ==
    IF evs = <<>> THEN 0
    ELSE MapGet(Head(evs).allocatedInventory, itemId) + SumAllocated(Tail(evs), itemId)

EventsWithId(evs, eventId) == { k \in 1..Len(evs) : evs[k].eventId = eventId }
ItemsWithId(inv, itemId) == { j \in 1..Len(inv) : inv[j].itemId = itemId }
Min(a, b) == IF a < b THEN a ELSE b

C2_Bounds ==
    \A j \in 1..Len(inventory) :
        /\ 0 <= inventory[j].allocatedQuantity
        /\ inventory[j].allocatedQuantity <= inventory[j].totalQuantity
        /\ getAvailableQuantity(inventory[j]) >= 0

\* an item whose total was brought down to exactly what is allocated
C2_Witness ==
    /\ last.op = "updateInventoryItemDetails" /\ last.ok
    /\ \E j \in ItemsWithId(inventory, last.id) :
           /\ inventory[j].allocatedQuantity > 0
           /\ inventory[j].allocatedQuantity = inventory[j].totalQuantity

\* C3: allocate succeeds exactly when 0 < qty <= totalQuantity -
\* allocatedQuantity; on success the item's allocatedQuantity and the event's
\* entry for the item (created if absent) both grow by exactly qty; when it is
\* refused no item's allocatedQuantity and no event's allocation map changes.
C3_AllocateStep ==
    last'.op = "allocate" =>
        \A j \in ItemsWithId(inventory, last'.id), k \in EventsWithId(events, last'.eventId) :
            /\ last'.ok <=> ( /\ 0 < last'.qty
                              /\ last'.qty <= inventory[j].totalQuantity
                                                - inventory[j].allocatedQuantity )
            /\ last'.ok =>
                  /\ inventory'[j].allocatedQuantity
                        = inventory[j].allocatedQuantity + last'.qty
                  /\ last'.id \in DOMAIN events'[k].allocatedInventory
                  /\ events'[k].allocatedInventory[last'.id]
                        = MapGet(events[k].allocatedInventory, last'.id) + last'.qty
            /\ ~last'.ok =>
                  /\ \A x \in 1..Len(inventory) :
                         inventory'[x].allocatedQuantity = inventory[x].allocatedQuantity
                  /\ Len(events') = Len(events)
                  /\ \A y \in 1..Len(events) :
                         events'[y].allocatedInventory = events[y].allocatedInventory

C3_Allocate == [][C3_AllocateStep]_vars

\* an allocation refused for want of available units while another is recorded
C3_Witness ==
    /\ last.op = "allocate" /\ ~last.ok
    /\ \E j \in ItemsWithId(inventory, last.id) :
           /\ inventory[j].allocatedQuantity > 0
           /\ last.qty > inventory[j].totalQuantity - inventory[j].allocatedQuantity
    /\ EventsWithId(events, last.eventId) # {}

\* C4: deallocate with qty > 0 removes actual = min(qty, the event's entry):
\* the entry drops by actual and is erased at zero, the item's
\* allocatedQuantity drops by the same actual, and it never falls below what
\* the other events still hold.
C4_DeallocateStep ==
    last'.op = "deallocate" =>
        \A j \in ItemsWithId(inventory, last'.id), k \in EventsWithId(events, last'.eventId) :
            LET entry == MapGet(events[k].allocatedInventory, last'.id)
                actual == Min(last'.qty, entry)
                others == SumAllocated(events, last'.id) - entry
            IN /\ last'.qty > 0
               /\ MapGet(events'[k].allocatedInventory, last'.id) = entry - actual
               /\ entry - actual = 0 => last'.id \notin DOMAIN events'[k].allocatedInventory
               /\ inventory'[j].allocatedQuantity = inventory[j].allocatedQuantity - actual
               /\ inventory'[j].allocatedQuantity >= others

C5_DeleteEventStep ==
    (last'.op = "deleteEvent" /\ last'.ok) =>
        \A k \in EventsWithId(events, last'.eventId) :
            /\ Len(inventory') = Len(inventory)
            /\ \A j \in 1..Len(inventory) :
                   inventory'[j] =
                       [inventory[j] EXCEPT !.allocatedQuantity =
                           @ - MapGet(events[k].allocatedInventory, inventory[j].itemId)]
            /\ EventsWithId(events', last'.eventId) = {}
            /\ events' = SelectSeq(events, LAMBDA ev : ev.eventId # last'.eventId)
            /\ \A j \in 1..Len(inventory') :
                   inventory'[j].allocatedQuantity
                       = SumAllocated(events', inventory'[j].itemId)

ClosedStatus(s) == s = "COMPLETED" \/ s = "CANCELED"
RecordsWithId(atts, attendeeId) == { j \in 1..Len(atts) : atts[j].attendeeId = attendeeId }
Members(event) == { event.attendeeIds[x] : x \in 1..Len(event.attendeeIds) }

\* C6: registerAttendeeForEvent on a Completed or Canceled event is refused
\* and changes nothing: the event's attendee set, allAttendees (no record
\* created, no primary-event pointer rewritten) and the attendee id counter
\* stay as they were, for a self-registering regular user and for an admin
\* registering a guest alike.
C6_ClosedRegistrationStep ==
    ( /\ last'.op = "registerAttendeeForEvent"
      /\ \E k \in EventsWithId(events, last'.eventId) : ClosedStatus(events[k].status) )
    => /\ ~last'.ok
       /\ events' = events
       /\ allAttendees' = allAttendees
       /\ nextAttendeeId' = nextAttendeeId

C6_ClosedRegistration == [][C6_ClosedRegistrationStep]_vars

\* a regular user who has a profile pointing at another event is refused
C6_Witness ==
    /\ last.op = "registerAttendeeForEvent" /\ ~last.ok
    /\ AtRegularUserMenu
    /\ \E k \in EventsWithId(events, last.eventId) : ClosedStatus(events[k].status)
    /\ \E j \in RecordsWithId(allAttendees, users[currentUser].userId) :
           allAttendees[j].eventIdRegisteredFor \notin {0, last.eventId}

\* C7: after any sequence of registerAttendeeForEvent and
\* cancelOwnRegistration no event's attendeeIds holds an attendee id twice,
\* and registering an id that is already a member leaves the event's
\* attendee set unchanged.
C7_NoDuplicateMember ==
    \A k \in 1..Len(events) :
        \A x, y \in 1..Len(events[k].attendeeIds) :
            events[k].attendeeIds[x] = events[k].attendeeIds[y] => x = y

C7_ReRegisterStep ==
    (last'.op = "registerAttendeeForEvent" /\ last'.ok) =>
        \A k \in EventsWithId(events, last'.eventId) :
            last'.id \in Members(events[k]) =>
                events'[k].attendeeIds = events[k].attendeeIds

C7_Idempotence == []C7_NoDuplicateMember /\ [][C7_ReRegisterStep]_vars

\* the user registered again for an event joined before a later attendee
C7_Witness ==
    /\ last.op = "registerAttendeeForEvent" /\ last.ok
    /\ \E k \in EventsWithId(events, last.eventId) :
           /\ Len(events[k].attendeeIds) >= 2
           /\ events[k].attendeeIds[1] = last.id

\* C8: when a logged-in regular user with userId u registers for an Upcoming
\* or Ongoing event E, afterwards allAttendees holds exactly one record with
\* attendeeId = u (created if none existed, otherwise the existing one
\* reused), u is in E's attendee set and that record's eventIdRegisteredFor
\* is E's id.
C8_SelfRegistrationStep ==
    ( /\ last'.op = "registerAttendeeForEvent"
      /\ AtRegularUserMenu
      /\ \E k \in EventsWithId(events, last'.eventId) :
             events[k].status \in {"UPCOMING", "ONGOING"} )
    => LET u == users[currentUser].userId
           before == RecordsWithId(allAttendees, u)
           after == RecordsWithId(allAttendees', u)
       IN /\ last'.ok /\ last'.id = u
          /\ Cardinality(after) = 1
          /\ IF before = {}
             THEN /\ Len(allAttendees') = Len(allAttendees) + 1
                  /\ \A j \in 1..Len(allAttendees) : allAttendees'[j] = allAttendees[j]
             ELSE /\ after = before
                  /\ Len(allAttendees') = Len(allAttendees)
                  /\ \A j \in 1..Len(allAttendees) :
                         allAttendees'[j] =
                             IF j \in before
                             THEN [allAttendees[j] EXCEPT
                                      !.eventIdRegisteredFor = last'.eventId]
                             ELSE allAttendees[j]
          /\ \A k \in EventsWithId(events', last'.eventId) : u \in Members(events'[k])
          /\ \A j \in after : allAttendees'[j].eventIdRegisteredFor = last'.eventId

C9_UniqueAttendeeId ==
    \A x, y \in 1..Len(allAttendees) :
        allAttendees[x].attendeeId = allAttendees[y].attendeeId => x = y

C9_GuestMintStep ==
    (last'.op = "registerAttendeeForEvent" /\ last'.ok /\ AtAdminMenu) =>
        /\ Len(allAttendees') = Len(allAttendees) + 1
        /\ \A j \in 1..Len(allAttendees) :
               /\ allAttendees'[j] = allAttendees[j]
               /\ allAttendees[j].attendeeId # allAttendees'[Len(allAttendees')].attendeeId
        /\ allAttendees'[Len(allAttendees')].attendeeId = last'.id

C10_CancelStep ==
    last'.op = "cancelOwnRegistration" =>
        \A k \in EventsWithId(events, last'.eventId) :
            IF ClosedStatus(events[k].status)
            THEN /\ ~last'.ok
                 /\ events' = events
                 /\ allAttendees' = allAttendees
            ELSE last'.id \in Members(events[k]) =>
                 /\ last'.ok
                 /\ Len(events') = Len(events)
                 /\ last'.id \notin Members(events'[k])
                 /\ Members(events'[k]) = Members(events[k]) \ {last'.id}
                 /\ \A y \in 1..Len(events) : y # k => events'[y] = events[y]
                 /\ Len(allAttendees') = Len(allAttendees)
                 /\ \A j \in 1..Len(allAttendees) :
                        allAttendees'[j] =
                            IF /\ allAttendees[j].attendeeId = last'.id
                               /\ allAttendees[j].eventIdRegisteredFor = last'.eventId
                            THEN [allAttendees[j] EXCEPT !.eventIdRegisteredFor = 0,
                                                         !.isCheckedIn = FALSE]
                            ELSE allAttendees[j]

C10_CancelOwnRegistration == [][C10_CancelStep]_vars

\* the user left the event the profile pointed at and is still in another one
C10_Witness ==
    /\ last.op = "cancelOwnRegistration" /\ last.ok
    /\ \E j \in RecordsWithId(allAttendees, last.id) :
           allAttendees[j].eventIdRegisteredFor = 0
    /\ \E k \in 1..Len(events) :
           events[k].eventId # last.eventId /\ last.id \in Members(events[k])

\* C11 as stated: in no sequence of register, cancel, check-in, delete event
\* and contact update does a record's isCheckedIn go from true back to false.
C11_NeverUnchecked ==
    [][\A j \in 1..Len(allAttendees) :
           (j <= Len(allAttendees') /\ allAttendees[j].isCheckedIn)
               => allAttendees'[j].isCheckedIn]_vars

\* C11, amended: a record's isCheckedIn goes from true back to false only in
\* a cancelOwnRegistration that goes through, for the record of the user who
\* cancels, when its eventIdRegisteredFor pointed at the cancelled event; no
\* other operation resets it and no record leaves allAttendees.
C11_UncheckedOnlyByCancelStep ==
    /\ Len(allAttendees') >= Len(allAttendees)
    /\ \A j \in 1..Len(allAttendees) :
           (allAttendees[j].isCheckedIn /\ ~allAttendees'[j].isCheckedIn) =>
               /\ last'.op = "cancelOwnRegistration" /\ last'.ok
               /\ allAttendees[j].attendeeId = last'.id
               /\ allAttendees[j].eventIdRegisteredFor = last'.eventId

C11_UncheckedOnlyByCancel == [][C11_UncheckedOnlyByCancelStep]_vars

\* a checked-in user cancelled and the flag is false again
C11_Witness ==
    /\ last.op = "cancelOwnRegistration" /\ last.ok /\ last.qty = 1
    /\ \E j \in RecordsWithId(allAttendees, last.id) : ~allAttendees[j].isCheckedIn

(***************************************************************************)
(* Properties of user account management.                                  *)
(***************************************************************************)
Usernames(us) == { us[j].username : j \in 1..Len(us) }

\* C12: creating a user whose username equals (case-sensitively) an existing
\* user's is refused, and so is creating one with a password shorter than 6
\* characters, users and the user id counter staying as they were; hence after
\* any sequence of createUserAccount (admin menu, publicRegisterNewUser) and
\* deleteUserAccount no two users share a username.
C12_UniqueUsername ==
    \A x, y \in 1..Len(users) : users[x].username = users[y].username => x = y

C12_CreateStep ==
    last'.op \in {"adminCreateUser", "publicRegisterNewUser"} =>
        IF last'.ok
        THEN /\ Len(users') = Len(users) + 1
             /\ \A j \in 1..Len(users) : users'[j] = users[j]
             /\ users'[Len(users')].username \notin Usernames(users)
             /\ Length(users'[Len(users')].password) >= 6
             /\ nextUserId' = nextUserId + 1
        ELSE users' = users /\ nextUserId' = nextUserId

LowerNamesExcept(inv, j) == { toLower(inv[k].name) : k \in (1..Len(inv)) \ {j} }

\* C13: after any sequence of addInventoryItem and updateInventoryItemDetails
\* no two items have names that are equal when compared case-insensitively;
\* an add or a rename that would make such a pair is refused and leaves the
\* names unchanged.
C13_UniqueItemName ==
    \A x, y \in 1..Len(inventory) :
        toLower(inventory[x].name) = toLower(inventory[y].name) => x = y

C13_NameStep ==
    /\ last'.op = "addInventoryItem" =>
           IF last'.ok
           THEN /\ Len(inventory') = Len(inventory) + 1
                /\ toLower(inventory'[Len(inventory')].name)
                       \notin LowerNamesExcept(inventory, 0)
                /\ \A j \in 1..Len(inventory) : inventory'[j].name = inventory[j].name
           ELSE inventory' = inventory
    /\ last'.op = "updateInventoryItemDetails" =>
           /\ Len(inventory') = Len(inventory)
           /\ \A j \in 1..Len(inventory) :
                  inventory'[j].name # inventory[j].name =>
                      /\ inventory[j].itemId = last'.id
                      /\ toLower(inventory'[j].name) \notin LowerNamesExcept(inventory, j)

C14_TotalStep ==
    (last'.op = "updateInventoryItemDetails" /\ last'.ok /\ last'.qty # NoQty) =>
        /\ Len(inventory') = Len(inventory)
        /\ \A j \in 1..Len(inventory) :
               /\ inventory'[j].itemId = inventory[j].itemId
               /\ inventory'[j].allocatedQuantity = inventory[j].allocatedQuantity
               /\ inventory'[j].totalQuantity =
                      IF /\ inventory[j].itemId = last'.id
                         /\ last'.qty >= 0
                         /\ last'.qty >= inventory[j].allocatedQuantity
                      THEN last'.qty
                      ELSE inventory[j].totalQuantity

C14_SetTotalQuantity == [][C14_TotalStep]_vars

\* a total below what is allocated was typed and the total stayed
C14_Witness ==
    /\ last.op = "updateInventoryItemDetails" /\ last.ok
    /\ \E j \in ItemsWithId(inventory, last.id) :
           /\ 0 <= last.qty /\ last.qty < inventory[j].allocatedQuantity
           /\ inventory[j].totalQuantity > inventory[j].allocatedQuantity

\* C15: deleteUserAccount(username) is refused, users staying as they were,
\* when username is the logged-in user's, and otherwise removes exactly the
\* user with that username; so in every reachable state a non-null
\* currentUser refers to a user that is still in users.
C15_CurrentUserValid ==
    currentUser = NoUser \/ currentUser \in 1..Len(users)

C15_DeleteStep ==
    last'.op = "deleteUserAccount" =>
        IF last'.ok
        THEN \E uname \in Usernames(users) :
                 /\ uname # users[currentUser].username
                 /\ users' = SelectSeq(users, LAMBDA u : u.username # uname)
                 /\ Len(users') = Len(users) - 1
                 /\ currentUser' \in 1..Len(users')
                 /\ users'[currentUser'] = users[currentUser]
        ELSE users' = users /\ currentUser' = currentUser

C15_DeleteUser == []C15_CurrentUserValid /\ [][C15_DeleteStep]_vars

\* the admin typed the own username: every other name typed is an account
C15_Witness ==
    /\ last.op = "deleteUserAccount" /\ ~last.ok
    /\ currentUser # NoUser /\ users[currentUser].username = "admin"
    /\ (UsernameInputs \cup {"user1"}) \subseteq Usernames(users)

(***************************************************************************)
(* Properties of the ids and of the data files.                            *)
(***************************************************************************)
NoRepeat(s) == \A i, j \in 1..Len(s) : s[i] = s[j] => i = j

\* C16: ids are never reused.  Once an id has been handed out to a user
\* (likewise an event or an inventory item), no entity of that kind made later
\* is handed the same id, over any sequence of creations and deletions with
\* the program left and started again in between.
C16_NeverReused == \A k \in DOMAIN assigned : NoRepeat(assigned[k])

\* C17: per-kind id sequences.  Every user, event or inventory item made by a
\* create operation gets an id strictly greater than every id of its kind in
\* the store, created or loaded, and the counters of the other kinds are left
\* alone; so no two entities of one kind in the store share an id.
C17_DistinctIds ==
    /\ NoRepeat(IdsOf(users, "userId"))
    /\ NoRepeat(IdsOf(events, "eventId"))
    /\ NoRepeat(IdsOf(inventory, "itemId"))

C17_CreateStep ==
    /\ last'.op \in {"adminCreateUser", "publicRegisterNewUser"} /\ last'.ok =>
           /\ \A j \in 1..Len(users) : users[j].userId < last'.id
           /\ users' = Append(users, users'[Len(users')])
           /\ users'[Len(users')].userId = last'.id
           /\ UNCHANGED <<nextEventId, nextItemId, nextAttendeeId>>
    /\ last'.op = "createEvent" /\ last'.ok =>
           /\ \A k \in 1..Len(events) : events[k].eventId < last'.eventId
           /\ events' = Append(events, events'[Len(events')])
           /\ events'[Len(events')].eventId = last'.eventId
           /\ UNCHANGED <<nextUserId, nextItemId, nextAttendeeId>>
    /\ last'.op = "addInventoryItem" /\ last'.ok =>
           /\ \A j \in 1..Len(inventory) : inventory[j].itemId < last'.id
           /\ inventory' = Append(inventory, inventory'[Len(inventory')])
           /\ inventory'[Len(inventory')].itemId = last'.id
           /\ UNCHANGED <<nextUserId, nextEventId, nextAttendeeId>>

C17_PerKindIds == []C17_DistinctIds /\ [][C17_CreateStep]_vars

\* the create half of C17 alone
C17_FreshIds == [][C17_CreateStep]_vars

\* C18: re-seeding.  After loadData, for each kind of entity (user, event,
\* inventory item, attendee) the id the next creation hands out is the maximum
\* id loaded for that kind plus one, and 1 when nothing of that kind was
\* loaded.  Stated of the restarts on unedited files, which load the ids that
\* were in the store; a collection loaded empty is seeded at once, its first
\* record taking the next id.
C18_IdAfterLoad(ids) == IF ids = {} THEN FirstId ELSE MaxId(ids) + 1

C18_ReseedStep ==
    last'.op = "restart" /\ last'.qty = 0 =>
        /\ IF users = <<>> THEN users'[1].userId = FirstId
           ELSE nextUserId' = C18_IdAfterLoad(Range(IdsOf(users, "userId")))
        /\ IF events = <<>> THEN events'[1].eventId = FirstId
           ELSE nextEventId' = C18_IdAfterLoad(Range(IdsOf(events, "eventId")))
        /\ IF inventory = <<>> THEN inventory'[1].itemId = FirstId
           ELSE nextItemId' = C18_IdAfterLoad(Range(IdsOf(inventory, "itemId")))
        /\ nextAttendeeId' = C18_IdAfterLoad(Range(IdsOf(allAttendees, "attendeeId")))

C18_Reseed == [][C18_ReseedStep]_vars

\* C19: localized decode errors.  When the program is started on files of
\* which one holds a line that cannot be decoded, the line is skipped: the
\* process does not terminate, and every record that was saved, in that file
\* before and after the line and in the other files, is loaded.
C19_LoadStep ==
    /\ last'.op # "terminate"
    /\ last'.op = "restart" =>
           /\ Range(users) \subseteq Range(users')
           /\ Range(events) \subseteq Range(events')
           /\ Range(inventory) \subseteq Range(inventory')
           /\ Range(allAttendees) \subseteq Range(allAttendees')

C19_DecodeErrorsSkipped == [][C19_LoadStep]_vars

\* C20: enumeration decoding.  A user line whose role integer is not 0 or 1
\* and an event line whose status integer is not in 0..3 load no entity; so
\* every user in the store is an Admin or a RegularUser and every event in the
\* store is Upcoming, Ongoing, Completed or Canceled.
C20_Enumerations ==
    /\ \A j \in 1..Len(users) : users[j].role \in {"ADMIN", "REGULAR_USER"}
    /\ \A k \in 1..Len(events) :
           events[k].status \in {"UPCOMING", "ONGOING", "COMPLETED", "CANCELED"}

(***************************************************************************)
(* Properties of the line formats.                                         *)
(***************************************************************************)
\* C21: line round-trip.  Every line of a data file that fromString decodes
\* into an entity is the line toString writes for that entity, for the event
\* lines (with empty and with filled attendee and allocation fields) and for
\* the user, inventory and attendee lines.
C21_LineRoundTrip ==
    /\ \A j \in 1..Len(files.users) :
           LET d == UserFromString(files.users[j])
           IN d.kind = "entity" => UserToString(d.entity) = files.users[j]
    /\ \A j \in 1..Len(files.events) :
           LET d == EventFromString(files.events[j])
           IN d.kind = "entity" => EventToString(d.entity) = files.events[j]
    /\ \A j \in 1..Len(files.inventory) :
           LET d == InventoryItemFromString(files.inventory[j])
           IN d.kind = "entity" => InventoryItemToString(d.entity) = files.inventory[j]
    /\ \A j \in 1..Len(files.attendees) :
           LET d == AttendeeFromString(files.attendees[j])
           IN d.kind = "entity" => AttendeeToString(d.entity) = files.attendees[j]

\* C22: unambiguous encoding.  Every user, event, attendee and inventory item
\* the create and edit operations put in the store is what fromString decodes
\* from the line toString writes for it, field by field, whatever characters
\* its free-text fields hold.
C22_EntityRoundTrip ==
    /\ \A j \in 1..Len(users) :
           UserFromString(UserToString(users[j])) = Decoded(users[j])
    /\ \A j \in 1..Len(events) :
           EventFromString(EventToString(events[j])) = Decoded(events[j])
    /\ \A j \in 1..Len(inventory) :
           InventoryItemFromString(InventoryItemToString(inventory[j])) = Decoded(inventory[j])
    /\ \A j \in 1..Len(allAttendees) :
           AttendeeFromString(AttendeeToString(allAttendees[j])) = Decoded(allAttendees[j])

\* C23: restart round-trip.  When the program is left through Exit, which
\* saves the store, and started again on the files as they were saved, each of
\* the four collections holds exactly the records it held at the save, each
\* once and unaltered.
C23_RestartStep ==
    (last'.op = "restart" /\ last'.qty = 0) =>
        /\ users' = users
        /\ events' = events
        /\ inventory' = inventory
        /\ allAttendees' = allAttendees

C23_RestartRoundTrip == [][C23_RestartStep]_vars

\* the operations of the menus that change a collection
MutatingOps ==
    { "createEvent", "deleteEvent", "updateEventStatus", "addInventoryItem",
      "updateInventoryItemDetails", "allocate", "deallocate",
      "registerAttendeeForEvent", "cancelOwnRegistration", "checkInAttendeeForEvent",
      "updateCurrentLoggedInUserContactInfo", "adminCreateUser",
      "publicRegisterNewUser", "deleteUserAccount" }

\* C24: write-through persistence.  After every mutating operation that went
\* through, each of the four files holds the encoding of its collection as it
\* is in memory: no change is left unsaved.
C24_WriteThrough ==
    (last.ok /\ last.op \in MutatingOps) => files = saveData(CurrentStore)

\* C25: all-or-nothing.  A mutating operation that ends in a refusal or an
\* error leaves the four collections as they were before it: a check-in that
\* checks nobody in, a registration, a cancellation, an allocation or a
\* deallocation that is refused.
C25_RefusalStep ==
    (~last'.ok /\ last'.op \in MutatingOps \cup {"trackInventoryAllocationToEvent"}) =>
        UNCHANGED <<users, events, inventory, allAttendees>>

C25_AllOrNothing == [][C25_RefusalStep]_vars

C27_ClosedStep ==
    \A j \in 1..Len(events) :
        (ClosedStatus(events[j].status)
            /\ last'.op \notin {"deleteEvent", "updateEventStatus"}) =>
            /\ j <= Len(events')
            /\ events'[j].eventId = events[j].eventId
            /\ events'[j].status = events[j].status
            /\ events'[j].attendeeIds = events[j].attendeeIds
            /\ events'[j].allocatedInventory = events[j].allocatedInventory
            /\ ~(last'.op = "checkInAttendeeForEvent" /\ last'.ok
                    /\ last'.eventId = events[j].eventId)
            /\ (last'.eventId = events[j].eventId /\ last'.op \in MutatingOps) => ~last'.ok

C27_ClosedEventGuard == [][C27_ClosedStep]_vars

\* a closed event with the user among its attendees and an item allocated to
\* it, after the user's cancellation was refused
C27_Witness ==
    /\ last.op = "cancelOwnRegistration" /\ ~last.ok
    /\ \E j \in 1..Len(events) :
           /\ events[j].eventId = last.eventId
           /\ ClosedStatus(events[j].status)
           /\ last.id \in Members(events[j])
           /\ DOMAIN events[j].allocatedInventory # {}

\* C28: createEvent goes through for every input the prompts accept, whether
\* or not an event has the same name; the new event has an id no event of
\* the store has, the status Upcoming, no attendee and no allocation, and the
\* events there were and the inventory are as before.
C28_CreateStep ==
    last'.op = "createEvent" =>
        /\ last'.ok
        /\ Len(events') = Len(events) + 1
        /\ SubSeq(events', 1, Len(events)) = events
        /\ LET new == events'[Len(events')]
           IN /\ new.eventId = last'.eventId
              /\ EventsWithId(events, new.eventId) = {}
              /\ new.status = "UPCOMING"
              /\ new.attendeeIds = <<>>
              /\ DOMAIN new.allocatedInventory = {}
        /\ inventory' = inventory

C28_CreateEvent == [][C28_CreateStep]_vars

\* an event was created under the name of a seeded event while an item was
\* allocated to another event
C28_Witness ==
    /\ last.op = "createEvent" /\ last.ok
    /\ \E j, k \in 1..Len(events) :
           /\ j # k
           /\ events[j].eventId = last.eventId
           /\ events[k].name = events[j].name
    /\ \E j \in 1..Len(inventory) : inventory[j].allocatedQuantity > 0

(***************************************************************************)
(* Properties of src/final_project.cpp.                                    *)
(***************************************************************************)
\* C29: capacity invariant.  After any sequence of registerForEvent and
\* updateEvent, every event has registeredCount <= capacity.
C29_Capacity ==
    \A i \in 1..Len(database.events) :
        database.events[i].registeredCount <= database.events[i].capacity

\* the user ids registerUser is tried with: the ids drawn and one no user has
UserIdsTried == UserIdDraws \cup { 2003 }

\* C30: Event::registerUser(userId) returns false and leaves registeredUsers
\* and registeredCount as they are when the event is full or userId is
\* registered already, and otherwise appends userId and adds one to
\* registeredCount; no user id is twice in an event's list, and
\* isUserRegistered(userId) is true exactly for the ids registerUser returned
\* true for.
C30_RegisterUser ==
    \A i \in 1..Len(database.events) :
        LET event == database.events[i]
            listed == { event.registeredUsers[x] : x \in 1..Len(event.registeredUsers) }
        IN /\ event.registeredCount = Len(event.registeredUsers)
           /\ Cardinality(listed) = event.registeredCount
           /\ \A u \in UserIdsTried :
                  LET r == registerUser(event, u)
                  IN /\ IF event.registeredCount >= event.capacity \/ u \in listed
                        THEN /\ ~r.result
                             /\ r.event = event
                        ELSE /\ r.result
                             /\ r.event.registeredUsers = Append(event.registeredUsers, u)
                             /\ r.event.registeredCount = event.registeredCount + 1
                             /\ r.event.capacity = event.capacity /\ r.event.id = event.id
                     /\ isUserRegistered(event, u) <=> << i, u >> \in accepted

\* registerUser returned false for a user because the event, with another
\* user registered, was full
C30_Witness ==
    /\ returned.op = "full" /\ ~returned.result
    /\ LET event == database.events[returned.event]
       IN /\ event.registeredCount >= 1
          /\ event.registeredCount = event.capacity
          /\ ~isUserRegistered(event, returned.userId)
          /\ \E u \in UserIdDraws : << returned.event, u >> \in accepted

\* C31: every user of the Database has an id no other user has, and every
\* event an id no other event has, so that findEventById and deleteEvent
\* address one event and a registration belongs to one user.
C31_UniqueIds ==
    /\ \A i, j \in 1..Len(database.events) :
           i # j => database.events[i].id # database.events[j].id
    /\ \A i, j \in 1..Len(database.users) :
           i # j => database.users[i].id # database.users[j].id

\* the users and events addUser and addEvent are tried with
UsersTried == { DatabaseUser(id, role) : id \in AccountIdDraws, role \in { "admin", "user" } }
EventsTried == { DatabaseEvent(id, c) : id \in EventIdDraws, c \in CapacityPrompts }

\* C32: addUser and addEvent refuse with DatabaseException and leave the
\* Database as it is when users holds MAX_USERS or events MAX_EVENTS entries,
\* so userCount <= MAX_USERS and eventCount <= MAX_EVENTS; and no event's
\* registeredCount exceeds MAX_USERS, the size of registeredUsers, whatever
\* its capacity, so registerUser writes inside the array.
C32_ArrayBounds ==
    /\ Len(database.users) <= MAX_USERS
    /\ Len(database.events) <= MAX_EVENTS
    /\ \A user \in UsersTried :
           LET a == addUser(database, user)
           IN IF Len(database.users) >= MAX_USERS
              THEN a.thrown /\ a.database = database
              ELSE ~a.thrown /\ Len(a.database.users) = Len(database.users) + 1
    /\ \A event \in EventsTried :
           LET a == addEvent(database, event)
           IN IF Len(database.events) >= MAX_EVENTS
              THEN a.thrown /\ a.database = database
              ELSE ~a.thrown /\ Len(a.database.events) = Len(database.events) + 1
    /\ \A i \in 1..Len(database.events) :
           LET event == database.events[i]
           IN /\ event.registeredCount = Len(event.registeredUsers)
              /\ event.registeredCount <= MAX_USERS
              /\ \A u \in AccountIdDraws :
                     LET r == registerUser(event, u)
                     IN r.result => r.event.registeredCount <= MAX_USERS

\* users is full, the account that came last was refused, and an event whose
\* capacity is above MAX_USERS has every regular user registered
C32_Witness ==
    /\ returned.op = "terminated"
    /\ Len(database.users) = MAX_USERS
    /\ \E i \in 1..Len(database.events) :
           /\ database.events[i].capacity > MAX_USERS
           /\ database.events[i].registeredCount = MAX_USERS - 1

(***************************************************************************)
(* The attendance report of src/test.cpp.                                  *)
(***************************************************************************)
\* generateAttendanceReportForEvent: "Checked-in: Yes" in the line of
\* attendeeId in the report of event
ReportedCheckedIn(atts, event, attendeeId) ==
    /\ SeqContains(event.attendeeIds, attendeeId)
    /\ LET attProfile == findAttendeeInMasterList(atts, attendeeId)
       IN attProfile # NotFound /\ atts[attProfile].isCheckedIn

\* C33: an attendee of an event is reported as checked in for that event
\* only if checkInAttendeeForEvent went through for that attendee and that
\* event since the attendee's registration for it.
C33_CheckInPerEvent ==
    \A k \in 1..Len(events) :
        \A j \in 1..Len(events[k].attendeeIds) :
            LET a == events[k].attendeeIds[j]
            IN ReportedCheckedIn(allAttendees, events[k], a)
                   => << events[k].eventId, a >> \in checkedInFor

\* C34: an attendee whose eventIdRegisteredFor is the id of an event of the
\* store is in the attendee set of that event, the one findEventById gives
\* for the id.
C34_PrimaryEvent ==
    \A j \in 1..Len(allAttendees) :
        LET event == findEventById(events, allAttendees[j].eventIdRegisteredFor)
        IN (allAttendees[j].eventIdRegisteredFor # 0 /\ event # NotFound)
               => SeqContains(events[event].attendeeIds, allAttendees[j].attendeeId)

(***************************************************************************)
(* The Attendee record a regular user shares with nobody.                  *)
(***************************************************************************)
\* the step is a registration or a contact update a regular user made for
\* themselves
OwnProfileStep ==
    /\ AtRegularUserMenu
    /\ last'.ok
    /\ last'.op \in { "registerAttendeeForEvent", "updateCurrentLoggedInUserContactInfo" }

C35_BridgeStep ==
    OwnProfileStep =>
        \A j \in 1..Len(allAttendees) :
            allAttendees'[j] # allAttendees[j]
                => allAttendees[j].name = users[currentUser].username

\* C35: the Attendee record a regular user's registration or contact update
\* reuses was created for that user: such a step changes no record that was
\* made for a guest.
C35_IdentityBridge == [][C35_BridgeStep]_vars

\* C36: every id in an event's attendeeIds is the attendeeId of a record in
\* allAttendees.
C36_MembersHaveRecords ==
    \A k \in 1..Len(events) :
        \A j \in 1..Len(events[k].attendeeIds) :
            \E r \in 1..Len(allAttendees) :
                allAttendees[r].attendeeId = events[k].attendeeIds[j]

\* the account of user1 was deleted while user1 is in an event's attendeeIds
C36_Witness ==
    /\ last.op = "deleteUserAccount" /\ last.ok
    /\ ~usernameExists(users, "user1")
    /\ \E k \in 1..Len(events) :
           \E j \in 1..Len(events[k].attendeeIds) :
               \E r \in 1..Len(allAttendees) :
                   /\ allAttendees[r].attendeeId = events[k].attendeeIds[j]
                   /\ allAttendees[r].name = "user1"

(***************************************************************************)
(* Status changes of src/test.cpp.                                         *)
(***************************************************************************)
C37_StatusStep ==
    last'.op = "updateEventStatus" =>
        /\ users' = users /\ inventory' = inventory /\ allAttendees' = allAttendees
        /\ Len(events') = Len(events)
        /\ \A k \in 1..Len(events) :
               events'[k] = [events[k] EXCEPT !.status = events'[k].status]
        /\ IF last'.ok
           THEN \E k \in 1..Len(events) :
                    /\ events[k].eventId = last'.eventId
                    /\ events'[k].status \in { StatusOfChoice(c) : c \in 1..4 }
                    /\ \A j \in 1..Len(events) : j # k => events'[j] = events[j]
           ELSE events' = events

\* C37: updateEventStatus changes the status of the one event and nothing
\* else: the attendee sets, the allocation maps and every item's
\* allocatedQuantity are as before, whatever the status was and becomes, so
\* a Completed or Canceled event keeps what is allocated to it.
C37_StatusFrame == [][C37_StatusStep]_vars

\* an event with an attendee and an item allocated to it was just marked
\* Completed or Canceled and still holds both
C37_Witness ==
    /\ last.op = "updateEventStatus" /\ last.ok
    /\ \E k \in 1..Len(events) :
           /\ events[k].eventId = last.eventId
           /\ ClosedStatus(events[k].status)
           /\ events[k].attendeeIds # <<>>
           /\ DOMAIN events[k].allocatedInventory # {}
           /\ \E i \in 1..Len(inventory) : inventory[i].allocatedQuantity > 0

====
